---- MODULE Spec2Model ----
(***************************************************************************)
(* NBA power rankings: rank extraction from an article document, season    *)
(* schedule discovery and the merge of game batches into per-team opponent *)
(* lists (src/main8.py, src/main9.py).                                     *)
(*                                                                         *)
(* A Python str is a sequence of tokens: a token is a maximal run of word  *)
(* characters (\w+), one whitespace character or one punctuation           *)
(* character, so "1. LA Clippers" is <<"1", ".", " ", "LA", " ",           *)
(* "Clippers">>.  No string holds two adjacent word tokens.  The en and em *)
(* dash are the tokens "EN_DASH" and "EM_DASH".                            *)
(***************************************************************************)
EXTENDS Integers, Sequences, FiniteSets, TLC

VARIABLES
  pc,              \* position of main and of the function it is in
  url,             \* pr_url, the article parse_top_teams_from_article reads
  article,         \* children of the <article> element of the fetched page
  results,         \* Strategy 1's dict rank -> name
  by_rank,         \* dict rank -> name of Strategies 2 and 3
  returned,        \* the list parse_top_teams_from_article returned (top4)
  via,             \* the return statement taken: 0 (none), 1, 2 or 3
  raised,          \* the exception in flight, <<>> when none
  ran,             \* strategies executed so far, in order
  fetches,         \* session.get calls so far, in order
  printed,         \* lines printed so far
  version,         \* the program run: "main8" or "main9"
  todays_games,    \* batch of the live scoreboard
  league_schedule, \* batch of the season schedule (main8)
  future_games,    \* batch of the per-day scoreboard (main9)
  teams,           \* the target names
  days,            \* the window length
  by_team,         \* the dict upcoming_opponents_next_week returned
  cand,            \* discover_league_schedule: candidates probed so far
  best_games,      \* discover_league_schedule: best_games
  best_coverage,   \* discover_league_schedule: best_coverage
  probed,          \* what each probed candidate answered, in order
  candidates,      \* get_latest_power_rankings_article: hrefs collected from the index pages
  ordered,         \* get_latest_power_rankings_article: candidates, deduplicated
  scored,          \* get_latest_power_rankings_article: (ts, u) of the plausible candidates
  pages,           \* what each validated candidate answered, in order
  listings,        \* what each index page fetched so far answered, in order
  loads,           \* what the live scoreboard and each per-day scoreboard answered, in order
  calls            \* calls of the name functions so far: [fn, arg, out]

vars == <<pc, url, article, results, by_rank, returned, via, raised, ran, fetches,
          printed, version, todays_games, league_schedule, future_games, teams,
          days, by_team, cand, best_games, best_coverage, probed,
          candidates, ordered, scored, pages, listings, loads, calls>>

extract_vars == <<article, results, by_rank, returned, via, ran>>

merge_vars == <<todays_games, league_schedule, future_games, teams, days, by_team>>

discover_vars == <<cand, best_games, best_coverage, probed>>

discover_vars_init ==
  /\ cand = 0
  /\ best_games = <<>>
  /\ best_coverage = -1
  /\ probed = <<>>

select_vars == <<candidates, ordered, scored, pages, listings>>

select_vars_init ==
  /\ candidates = <<>>
  /\ ordered = <<>>
  /\ scored = <<>>
  /\ pages = <<>>
  /\ listings = <<>>

(***************************************************************************)
(* Team names and normalization                                            *)
(***************************************************************************)
CANON_TEAMS ==
  << <<"Atlanta", " ", "Hawks">>,
     <<"Boston", " ", "Celtics">>,
     <<"Brooklyn", " ", "Nets">>,
     <<"Charlotte", " ", "Hornets">>,
     <<"Chicago", " ", "Bulls">>,
     <<"Cleveland", " ", "Cavaliers">>,
     <<"Dallas", " ", "Mavericks">>,
     <<"Denver", " ", "Nuggets">>,
     <<"Detroit", " ", "Pistons">>,
     <<"Golden", " ", "State", " ", "Warriors">>,
     <<"Houston", " ", "Rockets">>,
     <<"Indiana", " ", "Pacers">>,
     <<"Los", " ", "Angeles", " ", "Clippers">>,
     <<"Los", " ", "Angeles", " ", "Lakers">>,
     <<"Memphis", " ", "Grizzlies">>,
     <<"Miami", " ", "Heat">>,
     <<"Milwaukee", " ", "Bucks">>,
     <<"Minnesota", " ", "Timberwolves">>,
     <<"New", " ", "Orleans", " ", "Pelicans">>,
     <<"New", " ", "York", " ", "Knicks">>,
     <<"Oklahoma", " ", "City", " ", "Thunder">>,
     <<"Orlando", " ", "Magic">>,
     <<"Philadelphia", " ", "76ers">>,
     <<"Phoenix", " ", "Suns">>,
     <<"Portland", " ", "Trail", " ", "Blazers">>,
     <<"Sacramento", " ", "Kings">>,
     <<"San", " ", "Antonio", " ", "Spurs">>,
     <<"Toronto", " ", "Raptors">>,
     <<"Utah", " ", "Jazz">>,
     <<"Washington", " ", "Wizards">> >>

ALIASES ==
  { << <<"la", " ", "clippers">>, <<"los", " ", "angeles", " ", "clippers">> >>,
    << <<"la", " ", "lakers">>, <<"los", " ", "angeles", " ", "lakers">> >>,
    << <<"ny", " ", "knicks">>, <<"new", " ", "york", " ", "knicks">> >>,
    << <<"portland", " ", "blazers">>, <<"portland", " ", "trail", " ", "blazers">> >>,
    << <<"gs", " ", "warriors">>, <<"golden", " ", "state", " ", "warriors">> >>,
    << <<"okc", " ", "thunder">>, <<"oklahoma", " ", "city", " ", "thunder">> >>,
    << <<"phx", " ", "suns">>, <<"phoenix", " ", "suns">> >>,
    << <<"76ers">>, <<"philadelphia", " ", "76ers">> >>,
    << <<"san", " ", "antonio">>, <<"san", " ", "antonio", " ", "spurs">> >>,
    << <<"new", " ", "orleans">>, <<"new", " ", "orleans", " ", "pelicans">> >> }

LowerTable ==
  { <<"76ERS", "76ers">>, <<"A", "a">>, <<"ANGELES", "angeles">>, <<"ANTONIO", "antonio">>,
    <<"ATLANTA", "atlanta">>, <<"Angeles", "angeles">>, <<"Antonio", "antonio">>, <<"Atlanta", "atlanta">>,
    <<"BLAZERS", "blazers">>, <<"BOSTON", "boston">>, <<"BROOKLYN", "brooklyn">>, <<"BUCKS", "bucks">>,
    <<"BULLS", "bulls">>, <<"Blazers", "blazers">>, <<"Boston", "boston">>, <<"Brooklyn", "brooklyn">>,
    <<"Bucks", "bucks">>, <<"Bulls", "bulls">>, <<"CAVALIERS", "cavaliers">>, <<"CELTICS", "celtics">>,
    <<"CHARLOTTE", "charlotte">>, <<"CHICAGO", "chicago">>, <<"CITY", "city">>, <<"CLEVELAND", "cleveland">>,
    <<"CLIPPERS", "clippers">>, <<"Cavaliers", "cavaliers">>, <<"Celtics", "celtics">>, <<"Charlotte", "charlotte">>,
    <<"Chicago", "chicago">>, <<"City", "city">>, <<"Cleveland", "cleveland">>, <<"Clippers", "clippers">>,
    <<"DALLAS", "dallas">>, <<"DENVER", "denver">>, <<"DETROIT", "detroit">>, <<"Dallas", "dallas">>,
    <<"Denver", "denver">>, <<"Detroit", "detroit">>, <<"GOLDEN", "golden">>, <<"GRIZZLIES", "grizzlies">>,
    <<"GS", "gs">>, <<"Golden", "golden">>, <<"Grizzlies", "grizzlies">>, <<"HAWKS", "hawks">>,
    <<"HEAT", "heat">>, <<"HORNETS", "hornets">>, <<"HOUSTON", "houston">>, <<"Hawks", "hawks">>,
    <<"Heat", "heat">>, <<"Hornets", "hornets">>, <<"Houston", "houston">>, <<"INDIANA", "indiana">>,
    <<"Indiana", "indiana">>, <<"JAZZ", "jazz">>, <<"Jazz", "jazz">>, <<"KINGS", "kings">>,
    <<"KNICKS", "knicks">>, <<"Kings", "kings">>, <<"Knicks", "knicks">>, <<"L", "l">>,
    <<"LA", "la">>, <<"LAKERS", "lakers">>, <<"LOS", "los">>, <<"Lakers", "lakers">>,
    <<"LeBron", "lebron">>, <<"Los", "los">>, <<"MAGIC", "magic">>, <<"MAVERICKS", "mavericks">>,
    <<"MEMPHIS", "memphis">>, <<"MIAMI", "miami">>, <<"MILWAUKEE", "milwaukee">>, <<"MINNESOTA", "minnesota">>,
    <<"Magic", "magic">>, <<"Mavericks", "mavericks">>, <<"Memphis", "memphis">>, <<"Miami", "miami">>,
    <<"Milwaukee", "milwaukee">>, <<"Minnesota", "minnesota">>, <<"NETS", "nets">>, <<"NEW", "new">>,
    <<"NUGGETS", "nuggets">>, <<"NY", "ny">>, <<"Nets", "nets">>, <<"New", "new">>,
    <<"No", "no">>, <<"Nuggets", "nuggets">>, <<"OKC", "okc">>, <<"OKLAHOMA", "oklahoma">>,
    <<"ORLANDO", "orlando">>, <<"ORLEANS", "orleans">>, <<"Oklahoma", "oklahoma">>, <<"Orlando", "orlando">>,
    <<"Orleans", "orleans">>, <<"PACERS", "pacers">>, <<"PELICANS", "pelicans">>, <<"PHILADELPHIA", "philadelphia">>,
    <<"PHOENIX", "phoenix">>, <<"PHX", "phx">>, <<"PISTONS", "pistons">>, <<"PORTLAND", "portland">>,
    <<"Pacers", "pacers">>, <<"Pelicans", "pelicans">>, <<"Philadelphia", "philadelphia">>, <<"Phoenix", "phoenix">>,
    <<"Pistons", "pistons">>, <<"Portland", "portland">>, <<"Preview", "preview">>, <<"RAPTORS", "raptors">>,
    <<"ROCKETS", "rockets">>, <<"Raptors", "raptors">>, <<"Rockets", "rockets">>, <<"SACRAMENTO", "sacramento">>,
    <<"SAN", "san">>, <<"SPURS", "spurs">>, <<"STATE", "state">>, <<"SUNS", "suns">>,
    <<"Sacramento", "sacramento">>, <<"San", "san">>, <<"Sixers", "sixers">>, <<"Spurs", "spurs">>,
    <<"State", "state">>, <<"Suns", "suns">>, <<"THUNDER", "thunder">>, <<"TIMBERWOLVES", "timberwolves">>,
    <<"TORONTO", "toronto">>, <<"TRAIL", "trail">>, <<"Team", "team">>, <<"Thunder", "thunder">>,
    <<"Timberwolves", "timberwolves">>, <<"Toronto", "toronto">>, <<"Trail", "trail">>, <<"UTAH", "utah">>,
    <<"Utah", "utah">>, <<"WARRIORS", "warriors">>, <<"WASHINGTON", "washington">>, <<"WIZARDS", "wizards">>,
    <<"Warriors", "warriors">>, <<"Washington", "washington">>, <<"Wizards", "wizards">>, <<"YORK", "york">>,
    <<"York", "york">> }

WHITESPACE == {" ", "\n", "\t"}

PUNCTUATION == {".", ")", "(", "-", "EN_DASH", "EM_DASH", ":", "#", ",", "'", "&"}

IsSpace(t) == t \in WHITESPACE

IsWord(t) == t \notin (WHITESPACE \cup PUNCTUATION)

LowerOf == [w \in {p[1] : p \in LowerTable} |-> (CHOOSE p \in LowerTable : p[1] = w)[2]]

\* str.lower
lower(s) == [i \in 1..Len(s) |-> IF s[i] \in DOMAIN LowerOf THEN LowerOf[s[i]] ELSE s[i]]

\* str.strip
strip(s) ==
  LET keep == {i \in 1..Len(s) : ~IsSpace(s[i])}
  IN  IF keep = {} THEN <<>>
      ELSE SubSeq(s, CHOOSE i \in keep : \A j \in keep : i <= j,
                     CHOOSE i \in keep : \A j \in keep : j <= i)

\* re.sub(r"[^\w\s]", " ", s)
SubPunct(s) == [i \in 1..Len(s) |-> IF s[i] \in PUNCTUATION THEN " " ELSE s[i]]

\* re.sub(r"\s+", " ", s)
RECURSIVE SubSpaces(_)
SubSpaces(s) ==
  IF s = <<>> THEN <<>>
  ELSE IF IsSpace(s[1])
       THEN IF Len(s) > 1 /\ IsSpace(s[2]) THEN SubSpaces(Tail(s))
            ELSE <<" ">> \o SubSpaces(Tail(s))
       ELSE <<s[1]>> \o SubSpaces(Tail(s))

\* re.sub(r"\bla\b", "los angeles", s)
RECURSIVE SubLA(_)
SubLA(s) ==
  IF s = <<>> THEN <<>>
  ELSE (IF s[1] = "la" THEN <<"los", " ", "angeles">> ELSE <<s[1]>>) \o SubLA(Tail(s))

AliasesGet(s) ==
  IF \E p \in ALIASES : p[1] = s THEN (CHOOSE p \in ALIASES : p[1] = s)[2] ELSE s

\* a _clean without the second strip
_clean_NoFinalStrip(s) == AliasesGet(SubLA(SubSpaces(SubPunct(strip(lower(s))))))

_clean(s) == AliasesGet(strip(SubLA(SubSpaces(SubPunct(strip(lower(s)))))))

\* _clean(t) for each t of CANON_TEAMS, in roster order
CleanTeams == [i \in 1..Len(CANON_TEAMS) |-> _clean(CANON_TEAMS[i])]

CANON_SET == {CleanTeams[i] : i \in 1..Len(CANON_TEAMS)}

is_team_name(text) == _clean(text) \in CANON_SET

\* a canonicalize that indexes the roster one entry too far
canonicalize_NextEntry(text) ==
  LET key == _clean(text)
      hit == {i \in 1..Len(CANON_TEAMS) : CleanTeams[i] = key}
  IN  IF key \in CANON_SET
      THEN CANON_TEAMS[((CHOOSE i \in hit : \A j \in hit : i <= j) % Len(CANON_TEAMS)) + 1]
      ELSE strip(text)

\* a canonicalize that hands back the normalized key of an unknown name
canonicalize_ReturnsKey(text) ==
  LET key == _clean(text)
      hit == {i \in 1..Len(CANON_TEAMS) : CleanTeams[i] = key}
  IN  IF key \in CANON_SET
      THEN CANON_TEAMS[CHOOSE i \in hit : \A j \in hit : i <= j]
      ELSE key

canonicalize(text) ==
  LET key == _clean(text)
      hit == {i \in 1..Len(CANON_TEAMS) : CleanTeams[i] = key}
  IN  IF key \in CANON_SET
      THEN CANON_TEAMS[CHOOSE i \in hit : \A j \in hit : i <= j]
      ELSE strip(text)

\* Python's `t in txt` on strings, token-wise
Contains(t, txt) ==
  \E i \in 0..(Len(txt) - Len(t)) : txt[i + 1] = t[1] /\ SubSeq(txt, i + 1, i + Len(t)) = t

\* the first t of CANON_TEAMS with `t in txt`, or <<>> (None)
FirstTeamIn(txt) ==
  LET hit == {i \in 1..Len(CANON_TEAMS) : Contains(CANON_TEAMS[i], txt)}
  IN  IF hit = {} THEN <<>> ELSE CANON_TEAMS[CHOOSE i \in hit : \A j \in hit : i <= j]

(***************************************************************************)
(* The parsed document.  A node is a Tag (name, href, kids) or a           *)
(* NavigableString (name "#text", text).  An href is its sequence of       *)
(* "/"-separated segments; <<>> is a tag without the attribute.            *)
(***************************************************************************)
NavigableString(text) == [name |-> "#text", href |-> <<>>, text |-> text, kids |-> <<>>]

Tag(name, href, kids) == [name |-> name, href |-> href, text |-> <<>>, kids |-> kids]

IsString(node) == node.name = "#text"

IsTag(node) == node.name # "#text"

\* Tag.descendants: pre-order, the tag itself excluded
RECURSIVE descendants(_)
descendants(kids) ==
  IF kids = <<>> THEN <<>>
  ELSE <<Head(kids)>> \o descendants(Head(kids).kids) \o descendants(Tail(kids))

\* the strings below a node, in document order
RECURSIVE Strings(_)
Strings(kids) ==
  IF kids = <<>> THEN <<>>
  ELSE (IF IsString(Head(kids)) THEN <<Head(kids).text>> ELSE Strings(Head(kids).kids))
       \o Strings(Tail(kids))

RECURSIVE Join(_, _)
Join(strs, sep) ==
  IF strs = <<>> THEN <<>>
  ELSE IF Len(strs) = 1 THEN strs[1]
  ELSE strs[1] \o sep \o Join(Tail(strs), sep)

RECURSIVE StripAll(_)
StripAll(strs) ==
  IF strs = <<>> THEN <<>>
  ELSE (IF strip(strs[1]) = <<>> THEN <<>> ELSE <<strip(strs[1])>>) \o StripAll(Tail(strs))

\* Tag.get_text(sep, strip=...) of the tag whose children are kids
get_text(kids, sep, stripped) ==
  Join(IF stripped THEN StripAll(Strings(kids)) ELSE Strings(kids), sep)

NodeText(node, sep, stripped) ==
  IF IsString(node) THEN (IF stripped THEN strip(node.text) ELSE node.text)
  ELSE get_text(node.kids, sep, stripped)

\* " ".join(s.split())
Normalize(s) == strip(SubSpaces(s))

Numerals ==
  << "0", "1", "2", "3", "4", "5", "6", "7", "8", "9", "10", "11", "12", "13", "14",
     "15", "16", "17", "18", "19", "20", "21", "22", "23", "24", "25", "26", "27",
     "28", "29", "30", "31" >>

\* str(n) and int(tok) for the one- and two-digit numerals
ToStr(n) == Numerals[n + 1]

IsNumeral(tok) == \E n \in 1..Len(Numerals) : Numerals[n] = tok

ToInt(tok) == (CHOOSE n \in 1..Len(Numerals) : Numerals[n] = tok) - 1

\* "/team/" in href
HasTeamPath(href) == \E i \in 2..(Len(href) - 1) : href[i] = "team"

(***************************************************************************)
(* Strategy 1: marker adjacency (parse_top_teams_from_article)             *)
(***************************************************************************)
LOOKAHEAD == 600

is_rank_marker(node, rank) ==
  IF IsString(node) THEN strip(node.text) = <<"#", ToStr(rank)>>
  ELSE get_text(node.kids, <<>>, TRUE) = <<"#", ToStr(rank)>>

\* a pass that keeps a team link's text as it is written (`found = txt`)
ScanNode_KeepsLinkText(nxt, rank) ==
  IF is_rank_marker(nxt, rank + 1) THEN [brk |-> TRUE, found |-> <<>>]
  ELSE IF IsTag(nxt)
  THEN LET txt == NodeText(nxt, <<" ">>, TRUE)
       IN  IF nxt.name = "a" /\ HasTeamPath(nxt.href) /\ is_team_name(txt)
           THEN [brk |-> TRUE, found |-> txt]
           ELSE LET t == FirstTeamIn(txt)
                IN  [brk |-> t # <<>>, found |-> t]
  ELSE [brk |-> FALSE, found |-> <<>>]

\* one pass of the inner loop body on nodes[j]: break without a name, break
\* with a name, or go on
ScanNode(nxt, rank) ==
  IF is_rank_marker(nxt, rank + 1) THEN [brk |-> TRUE, found |-> <<>>]
  ELSE IF IsTag(nxt)
  THEN LET txt == NodeText(nxt, <<" ">>, TRUE)
       IN  IF nxt.name = "a" /\ HasTeamPath(nxt.href) /\ is_team_name(txt)
           THEN [brk |-> TRUE, found |-> canonicalize(txt)]
           ELSE LET t == FirstTeamIn(txt)
                IN  [brk |-> t # <<>>, found |-> t]
  ELSE [brk |-> FALSE, found |-> <<>>]

\* the inner loop `for j in range(i + 1, min(i + 600, len(nodes)))` from j on
\* (0-based, `last` exclusive): the name found, or <<>>
RECURSIVE ScanFrom(_, _, _, _)
ScanFrom(nodes, j, last, rank) ==
  IF j >= last THEN <<>>
  ELSE LET s == ScanNode(nodes[j + 1], rank)
       IN  IF s.brk THEN s.found ELSE ScanFrom(nodes, j + 1, last, rank)

ScanWindow(nodes, i, rank) ==
  ScanFrom(nodes, i + 1, IF i + LOOKAHEAD < Len(nodes) THEN i + LOOKAHEAD ELSE Len(nodes), rank)

\* the loop `for i, node in enumerate(nodes)` from i on: results[rank], or
\* <<>> when the rank stays unresolved
RECURSIVE FindRank(_, _, _)
FindRank(nodes, i, rank) ==
  IF i >= Len(nodes) THEN <<>>
  ELSE IF is_rank_marker(nodes[i + 1], rank)
       THEN LET found == ScanWindow(nodes, i, rank)
            IN  IF found # <<>> THEN found ELSE FindRank(nodes, i + 1, rank)
       ELSE FindRank(nodes, i + 1, rank)

\* the loop `for rank in range(1, top_n + 1)` from rank on
RECURSIVE MarkerScanFrom(_, _, _, _)
MarkerScanFrom(nodes, rank, top_n, res) ==
  IF rank > top_n THEN res
  ELSE LET found == FindRank(nodes, 0, rank)
       IN  MarkerScanFrom(nodes, rank + 1, top_n,
             IF found = <<>> THEN res
             ELSE [r \in DOMAIN res \cup {rank} |-> IF r = rank THEN found ELSE res[r]])

MarkerScan(kids, top_n) == MarkerScanFrom(descendants(kids), 1, top_n, <<>>)

(***************************************************************************)
(* Strategy 2: ordinal prefix "1. Team Name"                               *)
(***************************************************************************)
BLOCK_TAGS == {"h1", "h2", "h3", "h4", "h5", "p", "li", "strong", "div", "span"}

ORDINAL_SEPARATORS == {".", ")", "-", "EN_DASH", "EM_DASH", ":"}

DASHES == {"EN_DASH", "EM_DASH", "-"}

MAX_RANK == 30

\* article.find_all([...]): the descendant tags with one of the names
find_all(kids, names) == SelectSeq(descendants(kids), LAMBDA n : n.name \in names)

\* tag.find("a", href=True): the first descendant <a> with an href, or none
FindLink(tag) ==
  LET links == SelectSeq(descendants(tag.kids), LAMBDA n : n.name = "a" /\ n.href # <<>>)
  IN  IF links = <<>> THEN <<>> ELSE <<links[1]>>

\* the tail (?:[–—-]\s+.*|\(.*|$) of the pattern, after its \s*
OrdinalTail(rest) ==
  LET r == IF rest # <<>> /\ IsSpace(rest[1]) THEN Tail(rest) ELSE rest
      ok(x) == \/ x = <<>>
               \/ x[1] = "("
               \/ x[1] \in DASHES /\ Len(x) >= 2 /\ IsSpace(x[2])
  IN  ok(rest) \/ ok(r)

\* re.match(r"^\s*(\d{1,2})\s*[\.\)\-–—:]\s+(.+?)\s*(?:[–—-]\s+.*|\(.*|$)", txt)
\* on normalized txt: [ok, rnk, name] with name = m.group(2).strip()
OrdinalMatch(txt) ==
  LET afterNum == IF Len(txt) >= 2 /\ IsSpace(txt[2]) THEN 3 ELSE 2
      start == afterNum + 2
      rest == SubSeq(txt, start, Len(txt))
      ends == {k \in 1..Len(rest) : OrdinalTail(SubSeq(rest, k + 1, Len(rest)))}
  IN  IF /\ Len(txt) >= start
         /\ IsNumeral(txt[1])
         /\ txt[afterNum] \in ORDINAL_SEPARATORS
         /\ IsSpace(txt[afterNum + 1])
      THEN [ok |-> TRUE, rnk |-> ToInt(txt[1]),
            name |-> strip(SubSeq(rest, 1, CHOOSE k \in ends : \A j \in ends : k <= j))]
      ELSE [ok |-> FALSE, rnk |-> 0, name |-> <<>>]

\* the (rnk, name) a block tag appends to candidates, as a sequence of 0 or 1
OrdinalCandidate(tag) ==
  LET m == OrdinalMatch(Normalize(get_text(tag.kids, <<" ">>, FALSE)))
      a == FindLink(tag)
      linked == IF a # <<>> /\ HasTeamPath(a[1].href)
                THEN get_text(a[1].kids, <<" ">>, TRUE) ELSE <<>>
      name == IF linked # <<>> THEN linked ELSE m.name
  IN  IF m.ok /\ is_team_name(name) THEN << <<m.rnk, canonicalize(name)>> >> ELSE <<>>

RECURSIVE OrdinalCandidates(_)
OrdinalCandidates(tags) ==
  IF tags = <<>> THEN <<>>
  ELSE OrdinalCandidate(Head(tags)) \o OrdinalCandidates(Tail(tags))

\* the loop `for rnk, nm in candidates`: the first occurrence of a rank wins
RECURSIVE FirstByRank(_, _)
FirstByRank(cands, br) ==
  IF cands = <<>> THEN br
  ELSE LET rnk == Head(cands)[1]
           nm == Head(cands)[2]
       IN  FirstByRank(Tail(cands),
             IF 1 <= rnk /\ rnk <= MAX_RANK /\ rnk \notin DOMAIN br
             THEN [r \in DOMAIN br \cup {rnk} |-> IF r = rnk THEN nm ELSE br[r]]
             ELSE br)

OrdinalScan(kids) == FirstByRank(OrdinalCandidates(find_all(kids, BLOCK_TAGS)), <<>>)

\* sorted(by_rank)[:top_n]
RECURSIVE Sorted(_)
Sorted(S) ==
  IF S = {} THEN <<>>
  ELSE LET m == CHOOSE x \in S : \A y \in S : x <= y IN <<m>> \o Sorted(S \ {m})

FirstN(seq, n) == SubSeq(seq, 1, IF Len(seq) < n THEN Len(seq) ELSE n)

(***************************************************************************)
(* Strategy 3: line windows                                                *)
(***************************************************************************)
LINE_WINDOW == 3

LINE_BOUNDARIES == {".", ")", "-", "EN_DASH", "EM_DASH", ":", " "}

\* str.splitlines
RECURSIVE splitlines(_)
splitlines(s) ==
  LET nl == {i \in 1..Len(s) : s[i] = "\n"}
  IN  IF s = <<>> THEN <<>>
      ELSE IF nl = {} THEN <<s>>
      ELSE LET i == CHOOSE i \in nl : \A j \in nl : i <= j
           IN  <<SubSeq(s, 1, i - 1)>> \o splitlines(SubSeq(s, i + 1, Len(s)))

Lines(kids) ==
  LET raw == splitlines(get_text(kids, <<"\n">>, FALSE))
  IN  [i \in 1..Len(raw) |-> strip(raw[i])]

\* re.compile(rf"^(?:#|No\.\s*)?{rnk}(?:[\.\)\-–—: ]|$)").match(line)
RECURSIVE SkipSpaces(_)
SkipSpaces(s) == IF s # <<>> /\ IsSpace(s[1]) THEN SkipSpaces(Tail(s)) ELSE s

LineMatch(line, rnk) ==
  LET at(x) == /\ x # <<>>
               /\ x[1] = ToStr(rnk)
               /\ (Len(x) = 1 \/ x[2] \in LINE_BOUNDARIES)
  IN  \/ at(line)
      \/ line # <<>> /\ line[1] = "#" /\ at(Tail(line))
      \/ Len(line) >= 2 /\ line[1] = "No" /\ line[2] = "."
           /\ at(SkipSpaces(SubSeq(line, 3, Len(line))))

\* " ".join(lines[i:i+3]), i 1-based
Window(lines, i) ==
  Join(SubSeq(lines, i, IF i + LINE_WINDOW - 1 < Len(lines) THEN i + LINE_WINDOW - 1
                        ELSE Len(lines)), <<" ">>)

\* the body of `for rnk in range(1, top_n + 1)` for one rnk
LineScanRank(lines, rnk, br) ==
  LET match == {i \in 1..Len(lines) : LineMatch(lines[i], rnk)}
      \* the loop breaks at the first matching line once rnk is in by_rank
      hit == {i \in match : rnk \in DOMAIN br \/ FirstTeamIn(Window(lines, i)) # <<>>}
  IN  IF hit = {} THEN br
      ELSE LET i == CHOOSE i \in hit : \A j \in hit : i <= j
               t == FirstTeamIn(Window(lines, i))
           IN  IF t = <<>> THEN br
               ELSE [r \in DOMAIN br \cup {rnk} |-> IF r = rnk THEN t ELSE br[r]]

RECURSIVE LineScanFrom(_, _, _, _)
LineScanFrom(lines, rnk, top_n, br) ==
  IF rnk > top_n THEN br
  ELSE LineScanFrom(lines, rnk + 1, top_n, LineScanRank(lines, rnk, br))

LineScan(kids, top_n, br) == LineScanFrom(Lines(kids), 1, top_n, br)

(***************************************************************************)
(* Merge and filter (upcoming_opponents_next_week).  A date is its day     *)
(* number; a game is [date, home, away]; an entry is <<date, opponent,     *)
(* venue>>.  A dict is a function on its keys.                             *)
(***************************************************************************)
today == 10

Want(names) == {_clean(names[i]) : i \in 1..Len(names)}

\* by_team[k].append(e) on a defaultdict(list)
AppendTo(bt, k, e) ==
  [x \in DOMAIN bt \cup {k} |->
     IF x = k THEN (IF k \in DOMAIN bt THEN Append(bt[k], e) ELSE <<e>>) ELSE bt[x]]

\* the two `if _clean(..) in want` appends for a game filed under date d
FileGame(bt, d, g, want) ==
  LET b1 == IF _clean(g.home) \in want THEN AppendTo(bt, g.home, <<d, g.away, "HOME">>) ELSE bt
  IN  IF _clean(g.away) \in want THEN AppendTo(b1, g.away, <<d, g.home, "AWAY">>) ELSE b1

\* list.sort(key=lambda x: x[0]): stable, by date
RECURSIVE SortByDate(_)
SortByDate(s) ==
  IF s = <<>> THEN <<>>
  ELSE LET m == CHOOSE i \in 1..Len(s) :
                  /\ \A j \in 1..Len(s) : s[i][1] <= s[j][1]
                  /\ \A j \in 1..(i - 1) : s[j][1] # s[i][1]
       IN  <<s[m]>> \o SortByDate(SubSeq(s, 1, m - 1) \o SubSeq(s, m + 1, Len(s)))

\* a merge that leaves every list in filing order
SortAll_FilingOrder(bt) == bt

SortAll(bt) == [k \in DOMAIN bt |-> SortByDate(bt[k])]

\* main9: add_game over a batch
RECURSIVE AddGames(_, _, _, _)
AddGames(bt, games, end, want) ==
  IF games = <<>> THEN bt
  ELSE LET g == Head(games)
       IN  AddGames(IF today <= g.date /\ g.date <= end THEN FileGame(bt, g.date, g, want) ELSE bt,
                    Tail(games), end, want)

\* a main9 merge whose window runs one day long (`end = today + days`)
upcoming_opponents_next_week_LongWindow(todays, future, names, n_days) ==
  LET end == today + n_days
      want == Want(names)
  IN  SortAll(AddGames(AddGames(<<>>, todays, end, want), future, end, want))

\* src/main9.py upcoming_opponents_next_week(todays_games, future_games, teams, days)
upcoming_opponents_next_week(todays, future, names, n_days) ==
  LET end == today + (n_days - 1)
      want == Want(names)
  IN  SortAll(AddGames(AddGames(<<>>, todays, end, want), future, end, want))

\* main8: the live games, filed without a window test
RECURSIVE AddLive(_, _, _)
AddLive(bt, games, want) ==
  IF games = <<>> THEN bt
  ELSE AddLive(FileGame(bt, Head(games).date, Head(games), want), Tail(games), want)

\* main8: `while cur <= end` over sched_by_date, from cur
RECURSIVE AddSchedule(_, _, _, _, _)
AddSchedule(bt, schedule, cur, end, want) ==
  IF cur > end THEN bt
  ELSE LET on == SelectSeq(schedule, LAMBDA g : today <= g.date /\ g.date <= end /\ g.date = cur)
           RECURSIVE file(_, _)
           file(b, gs) == IF gs = <<>> THEN b ELSE file(FileGame(b, cur, Head(gs), want), Tail(gs))
       IN  AddSchedule(file(bt, on), schedule, cur + 1, end, want)

\* a main8 merge whose schedule loop stops one day early (`while cur < end`)
upcoming_opponents_next_week8_ExclusiveEnd(todays, schedule, names, n_days) ==
  LET end == today + (n_days - 1)
      want == Want(names)
  IN  SortAll(AddSchedule(AddLive(<<>>, todays, want), schedule, today + 1, end - 1, want))

\* src/main8.py upcoming_opponents_next_week(todays_games, league_schedule, teams, days)
upcoming_opponents_next_week8(todays, schedule, names, n_days) ==
  LET end == today + (n_days - 1)
      want == Want(names)
  IN  SortAll(AddSchedule(AddLive(<<>>, todays, want), schedule, today + 1, end, want))

(***************************************************************************)
(* Bounds and the input universe                                           *)
(***************************************************************************)
TopN == 2

MaxDocLen == 4

ARTICLE_URLS == {"/news/power-rankings-week-1", "/news/power-rankings-week-2"}

OrdinalRanks == {1, 2, 3}

Celtics == <<"Boston", " ", "Celtics">>

Nuggets == <<"Denver", " ", "Nuggets">>

Hawks == <<"Atlanta", " ", "Hawks">>

Clippers == <<"Los", " ", "Angeles", " ", "Clippers">>

LAClippers == <<"LA", " ", "Clippers">>

\* <span>#r</span>
Marker(r) == Tag("span", <<>>, <<NavigableString(<<"#", ToStr(r)>>)>>)

\* <a href="/team/clippers">LA Clippers</a>
TeamLink(name) == Tag("a", <<"", "team", "clippers">>, <<NavigableString(name)>>)

\* <p>text</p>
Paragraph(text) == Tag("p", <<>>, <<NavigableString(text)>>)

\* <p>r. Name</p>
Ordinal(r, name) == Paragraph(<<ToStr(r), ".", " ">> \o name)

DocElems ==
  {Marker(r) : r \in 1..TopN}
    \cup {TeamLink(LAClippers), Paragraph(Celtics)}
    \cup {Ordinal(r, IF r = 2 THEN Hawks ELSE Nuggets) : r \in OrdinalRanks}

Documents == UNION {[1..n -> DocElems] : n \in 0..MaxDocLen}

\* the pages the site serves: any document at the first URL, a one-element
\* document at the second
Pages ==
  {<<"/news/power-rankings-week-1", doc>> : doc \in Documents}
    \cup {<<"/news/power-rankings-week-2", doc>> : doc \in [1..1 -> DocElems]}

(***************************************************************************)
(* main (src/main9.py), with parse_top_teams_from_article step by step     *)
(***************************************************************************)
DAYS == 7

DAYS_AHEAD == 6

\* scheduleLeagueV2.json and scheduleLeagueV2_1.json .. scheduleLeagueV2_20.json
SCHEDULE_CANDIDATES == 21

NoException == <<>>

Game(d, h, a) == [date |-> d, home |-> h, away |-> a]

\* what load_todays_games and load_future_games_from_espn may come back with
LiveOutcomes == {<<>>, <<Game(today, Clippers, Celtics)>>}

FutureOutcomes == {<<>>, <<Game(today + 1, Nuggets, Clippers)>>}

\* what discover_league_schedule may come back with (main8)
ScheduleOutcomes == {<<>>, <<Game(today + 1, Clippers, Nuggets)>>}

\* what get_latest_power_rankings_article may raise: the RuntimeError of an
\* empty candidate list, the exception of an index page's fetch, the
\* TypeError of sorting naive with aware publish times
SelectionErrors ==
  { [exc |-> "RuntimeError",
     msg |-> "Could not find any Power Rankings article links on index pages.",
     url |-> ""],
    [exc |-> "HTTPError", msg |-> "", url |-> "/news/category/power-rankings"],
    [exc |-> "TypeError", msg |-> "can't compare offset-naive and offset-aware datetimes",
     url |-> ""] }

Line(kind, body) == [kind |-> kind, body |-> body]

GameLines(games) == [i \in 1..Len(games) |-> Line("game", games[i])]

\* the prints of `for team in top4`
RECURSIVE TeamLines(_, _)
TeamLines(top, opponents) ==
  IF top = <<>> THEN <<>>
  ELSE LET team == Head(top)
           games == IF team \in DOMAIN opponents THEN opponents[team] ELSE <<>>
       IN  <<Line("team", team)>>
             \o (IF games = <<>> THEN <<Line("nogames", <<>>)>> ELSE GameLines(games))
             \o <<Line("blank", <<>>)>>
             \o TeamLines(Tail(top), opponents)

ExtractionError(top_n, u) ==
  [exc |-> "RuntimeError", msg |-> "Could not extract top teams from the article at",
   top_n |-> top_n, url |-> u]

Init ==
  /\ pc = "main"
  /\ url = ""
  /\ article = <<>>
  /\ results = <<>>
  /\ by_rank = <<>>
  /\ returned = <<>>
  /\ via = 0
  /\ raised = NoException
  /\ ran = <<>>
  /\ fetches = <<>>
  /\ printed = <<>>
  /\ version \in {"main8", "main9"}
  /\ todays_games = <<>>
  /\ league_schedule = <<>>
  /\ future_games = <<>>
  /\ teams = <<>>
  /\ days = DAYS
  /\ by_team = <<>>
  /\ discover_vars_init
  /\ loads = <<>>
  /\ select_vars_init
  /\ calls = <<>>

\* a selection that prints the article it picked before the article is read
SelectArticle_PrintsUrl ==
  /\ pc = "main"
  /\ \/ \E u \in ARTICLE_URLS :
          /\ url' = u
          /\ pc' = "parse"
          /\ raised' = raised
          /\ printed' = Append(printed, Line("article", u))
     \/ /\ raised' \in SelectionErrors
        /\ pc' = "catch"
        /\ url' = url
        /\ printed' = printed
  /\ UNCHANGED <<select_vars, calls, discover_vars, loads, extract_vars, merge_vars, fetches, version>>

\* pr_url = get_latest_power_rankings_article(session): a URL, or one of the
\* exceptions the function raises
SelectArticle ==
  /\ pc = "main"
  /\ \/ \E u \in ARTICLE_URLS : url' = u /\ pc' = "parse" /\ raised' = raised
     \/ /\ raised' \in SelectionErrors
        /\ pc' = "catch"
        /\ url' = url
  /\ UNCHANGED <<select_vars, calls, discover_vars, loads, extract_vars, merge_vars, fetches, printed, version>>

\* r = session.get(url); r.raise_for_status(); soup; article
FetchArticle ==
  /\ pc = "parse"
  /\ fetches' = Append(fetches, <<"parse_top_teams_from_article", url>>)
  /\ \/ \E page \in Pages :
          page[1] = url /\ article' = page[2] /\ pc' = "strategy1" /\ raised' = raised
     \/ /\ raised' = [exc |-> "HTTPError", msg |-> "Client Error for url:", url |-> url]
        /\ pc' = "catch"
        /\ article' = article
  /\ UNCHANGED <<select_vars, calls, discover_vars, loads, url, results, by_rank, returned, via, ran, merge_vars, printed, version>>

\* a marker scan whose result is stored but does not end the function
Strategy1_FallsThrough ==
  /\ pc = "strategy1"
  /\ ran' = Append(ran, 1)
  /\ results' = MarkerScan(article, TopN)
  /\ IF Cardinality(DOMAIN results') >= TopN
     THEN /\ returned' = [r \in 1..TopN |-> results'[r]]
          /\ via' = 1
     ELSE UNCHANGED <<returned, via>>
  /\ pc' = "strategy2"
  /\ UNCHANGED <<select_vars, calls, discover_vars, loads, url, article, by_rank, raised, fetches, merge_vars, printed, version>>

\* the marker scan and `if len(results) >= top_n: return ...`
Strategy1 ==
  /\ pc = "strategy1"
  /\ ran' = Append(ran, 1)
  /\ results' = MarkerScan(article, TopN)
  /\ IF Cardinality(DOMAIN results') >= TopN
     THEN /\ returned' = [r \in 1..TopN |-> results'[r]]
          /\ via' = 1
          /\ pc' = "return"
     ELSE /\ pc' = "strategy2"
          /\ UNCHANGED <<returned, via>>
  /\ UNCHANGED <<select_vars, calls, discover_vars, loads, url, article, by_rank, raised, fetches, merge_vars, printed, version>>

\* the ordinal scan and `if by_rank and len(by_rank) >= top_n: return ...`
Strategy2 ==
  /\ pc = "strategy2"
  /\ ran' = Append(ran, 2)
  /\ by_rank' = OrdinalScan(article)
  /\ IF by_rank' # <<>> /\ Cardinality(DOMAIN by_rank') >= TopN
     THEN /\ returned' = LET order == FirstN(Sorted(DOMAIN by_rank'), TopN)
                         IN  [i \in 1..Len(order) |-> by_rank'[order[i]]]
          /\ via' = 2
          /\ pc' = "return"
     ELSE /\ pc' = "strategy3"
          /\ UNCHANGED <<returned, via>>
  /\ UNCHANGED <<select_vars, calls, discover_vars, loads, url, article, results, raised, fetches, merge_vars, printed, version>>

\* a line scan that returns the ranks it has instead of raising
Strategy3_ReturnsPartial ==
  /\ pc = "strategy3"
  /\ ran' = Append(ran, 3)
  /\ by_rank' = LineScan(article, TopN, by_rank)
  /\ returned' = LET order == Sorted({k \in DOMAIN by_rank' : 1 <= k /\ k <= TopN})
                 IN  [i \in 1..Len(order) |-> by_rank'[order[i]]]
  /\ via' = 3
  /\ pc' = "return"
  /\ UNCHANGED <<select_vars, calls, discover_vars, loads, url, article, results, raised, fetches, merge_vars, printed, version>>

\* the line scan, the last return and the raise
Strategy3 ==
  /\ pc = "strategy3"
  /\ ran' = Append(ran, 3)
  /\ by_rank' = LineScan(article, TopN, by_rank)
  /\ IF Cardinality({k \in DOMAIN by_rank' : 1 <= k /\ k <= TopN}) >= TopN
     THEN /\ returned' = [r \in 1..TopN |-> by_rank'[r]]
          /\ via' = 3
          /\ pc' = "return"
          /\ raised' = raised
     ELSE /\ raised' = ExtractionError(TopN, url)
          /\ pc' = "catch"
          /\ UNCHANGED <<returned, via>>
  /\ UNCHANGED <<select_vars, calls, discover_vars, loads, url, article, results, fetches, merge_vars, printed, version>>

\* top4 = ...: the call returns and its locals are gone
Return ==
  /\ pc = "return"
  /\ pc' = "load"
  /\ article' = <<>>
  /\ results' = <<>>
  /\ by_rank' = <<>>
  /\ UNCHANGED <<select_vars, calls, discover_vars, loads, url, returned, via, raised, ran, fetches, merge_vars, printed, version>>

\* todays = load_todays_games(session), then main9's
\* future = load_future_games_from_espn(session, 6) or main8's
\* schedule = discover_league_schedule(session)
LoadGames ==
  /\ pc = "load"
  /\ todays_games' \in LiveOutcomes
  /\ IF version = "main9"
     THEN /\ future_games' \in FutureOutcomes
          /\ league_schedule' = league_schedule
          /\ fetches' = fetches \o <<<<"load_todays_games", "todaysScoreboard_00.json">>>>
                          \o [i \in 1..DAYS_AHEAD |-> <<"fetch_espn_games_for_date", today + i>>]
     ELSE /\ league_schedule' \in ScheduleOutcomes
          /\ future_games' = future_games
          /\ fetches' = fetches \o <<<<"load_todays_games", "todaysScoreboard_00.json">>>>
                          \o [i \in 1..SCHEDULE_CANDIDATES |-> <<"discover_league_schedule", i>>]
  /\ pc' = "merge"
  /\ UNCHANGED <<select_vars, calls, discover_vars, loads, url, extract_vars, raised, printed, version, teams, days, by_team>>

\* opponents = upcoming_opponents_next_week(todays, future, top4, days=7), or
\* main8's upcoming_opponents_next_week(todays, schedule, top4, days=7)
MergeGames ==
  /\ pc = "merge"
  /\ teams' = returned
  /\ days' = DAYS
  /\ by_team' = IF version = "main9"
                THEN upcoming_opponents_next_week(todays_games, future_games, returned, DAYS)
                ELSE upcoming_opponents_next_week8(todays_games, league_schedule, returned, DAYS)
  /\ pc' = "print"
  /\ UNCHANGED <<select_vars, calls, discover_vars, loads, url, extract_vars, raised, fetches, printed, version, todays_games,
                 league_schedule, future_games>>

\* step 5 of main: the prints
PrintReport ==
  /\ pc = "print"
  /\ printed' = printed \o <<Line("article", url), Line("heading", <<>>)>>
                        \o TeamLines(returned, by_team)
  /\ pc' = "done"
  /\ UNCHANGED <<select_vars, calls, discover_vars, loads, url, extract_vars, raised, fetches, version, merge_vars>>

\* except Exception as e: print(f"ERROR: {e}")
PrintError ==
  /\ pc = "catch"
  /\ printed' = Append(printed, Line("ERROR", raised))
  /\ pc' = "failed"
  /\ article' = <<>>
  /\ results' = <<>>
  /\ by_rank' = <<>>
  /\ UNCHANGED <<select_vars, calls, discover_vars, loads, url, returned, via, ran, raised, fetches, version, merge_vars>>

Next ==
  \/ SelectArticle
  \/ FetchArticle
  \/ Strategy1
  \/ Strategy2
  \/ Strategy3
  \/ Return
  \/ LoadGames
  \/ MergeGames
  \/ PrintReport
  \/ PrintError

Spec == Init /\ [][Next]_vars

(***************************************************************************)
(* upcoming_opponents_next_week as a function of its arguments: the        *)
(* batches, the targets and the window length are drawn from bounded sets, *)
(* and either program's merge is applied.  main8 merges the live batch     *)
(* with the season schedule, main9 with the per-day batch; the batch a     *)
(* program does not read is what the other source holds meanwhile.         *)
(***************************************************************************)
MaxGames == 3

DatesOnFeeds == {today - 1, today, today + 1, today + 2}

DaysChoices == {0, 2, DAYS}

\* load_todays_games stamps every record with the day of the load; the
\* function itself accepts any date
LiveGames ==
  {Game(today, LAClippers, Nuggets)}
    \cup {Game(d, Nuggets, Clippers) : d \in {today - 1, today, today + 1}}

ScheduleGames == {Game(d, Clippers, Nuggets) : d \in DatesOnFeeds}

EspnGames == {Game(d, Nuggets, Clippers) : d \in DatesOnFeeds}

TargetLists == {<<Clippers>>, <<Clippers, Nuggets>>, <<Clippers, Celtics>>}

SeqsUpTo(S, n) == UNION {[1..k -> S] : k \in 0..n}

InitMerge ==
  /\ pc = "merge"
  /\ version \in {"main8", "main9"}
  /\ todays_games \in SeqsUpTo(LiveGames, MaxGames)
  /\ league_schedule \in SeqsUpTo(ScheduleGames, MaxGames - Len(todays_games))
  /\ future_games \in SeqsUpTo(EspnGames, MaxGames - Len(todays_games) - Len(league_schedule))
  /\ teams \in TargetLists
  /\ days \in DaysChoices
  /\ by_team = <<>>
  /\ url = ""
  /\ article = <<>>
  /\ results = <<>>
  /\ by_rank = <<>>
  /\ returned = <<>>
  /\ via = 0
  /\ raised = NoException
  /\ ran = <<>>
  /\ fetches = <<>>
  /\ printed = <<>>
  /\ discover_vars_init
  /\ loads = <<>>
  /\ select_vars_init
  /\ calls = <<>>

\* src/main8.py: opponents = upcoming_opponents_next_week(todays, schedule, teams, days)
Merge8 ==
  /\ pc = "merge"
  /\ version = "main8"
  /\ by_team' = upcoming_opponents_next_week8(todays_games, league_schedule, teams, days)
  /\ pc' = "merged"
  /\ UNCHANGED <<select_vars, calls, url, extract_vars, raised, fetches, printed, version, todays_games,
                 league_schedule, future_games, teams, days, discover_vars, loads>>

\* src/main9.py: opponents = upcoming_opponents_next_week(todays, future, teams, days)
Merge9 ==
  /\ pc = "merge"
  /\ version = "main9"
  /\ by_team' = upcoming_opponents_next_week(todays_games, future_games, teams, days)
  /\ pc' = "merged"
  /\ UNCHANGED <<select_vars, calls, url, extract_vars, raised, fetches, printed, version, todays_games,
                 league_schedule, future_games, teams, days, discover_vars, loads>>

NextMerge == Merge8 \/ Merge9

SpecMerge == InitMerge /\ [][NextMerge]_vars

(***************************************************************************)
(* discover_league_schedule (src/main8.py), one candidate per step         *)
(***************************************************************************)
MaxCandidates == 3

HORIZON == 30

\* a scheduleLeagueV2 payload: gameDates entries [valid, date, games], valid
\* when strptime parses gameDate; a game is [home, away] of [teamCity, teamName]
RawTeam(city, name) == [teamCity |-> city, teamName |-> name]

RawClippers == RawTeam(<<"LA">>, <<"Clippers">>)

RawNuggets == RawTeam(<<"Denver">>, <<"Nuggets">>)

GameDate(ok, d, h, a) == [valid |-> ok, date |-> d, games |-> <<[homeTeam |-> h, awayTeam |-> a]>>]

Payloads ==
  { <<GameDate(FALSE, 0, RawClippers, RawNuggets)>>,
    <<GameDate(TRUE, today + HORIZON + 1, RawClippers, RawNuggets)>>,
    <<GameDate(TRUE, today, RawClippers, RawNuggets)>>,
    <<GameDate(TRUE, today + HORIZON, RawNuggets, RawClippers)>>,
    <<GameDate(TRUE, today - 1, RawNuggets, RawClippers),
      GameDate(TRUE, today + 1, RawNuggets, RawClippers)>>,
    <<GameDate(TRUE, today + 1, RawClippers, RawNuggets),
      GameDate(TRUE, today + 2, RawNuggets, RawClippers)>> }

\* f"{teamCity.strip()} {teamName.strip()}".strip()
FullName(t) == strip(strip(t.teamCity) \o <<" ">> \o strip(t.teamName))

RECURSIVE GamesOf(_, _)
GamesOf(d, games) ==
  IF games = <<>> THEN <<>>
  ELSE <<Game(d, canonicalize(FullName(Head(games).homeTeam)),
                 canonicalize(FullName(Head(games).awayTeam)))>>
       \o GamesOf(d, Tail(games))

RECURSIVE parse_schedule_payload(_)
parse_schedule_payload(game_dates) ==
  IF game_dates = <<>> THEN <<>>
  ELSE (IF Head(game_dates).valid THEN GamesOf(Head(game_dates).date, Head(game_dates).games)
        ELSE <<>>)
       \o parse_schedule_payload(Tail(game_dates))

\* sum(1 for g in games if today <= g["date"] <= horizon)
Coverage(games) ==
  Cardinality({i \in 1..Len(games) : today <= games[i].date /\ games[i].date <= today + HORIZON})

\* what a candidate URL answers: the request raises, a status other than 200,
\* a body r.json() rejects, or a payload
Responses ==
  {[kind |-> k, payload |-> <<>>] : k \in {"raises", "not200", "badjson"}}
    \cup {[kind |-> "json", payload |-> p] : p \in Payloads}

InitDiscover ==
  /\ pc = "discover"
  /\ version = "main8"
  /\ discover_vars_init
  /\ loads = <<>>
  /\ select_vars_init
  /\ calls = <<>>
  /\ league_schedule = <<>>
  /\ todays_games = <<>>
  /\ future_games = <<>>
  /\ teams = <<>>
  /\ days = DAYS
  /\ by_team = <<>>
  /\ url = ""
  /\ article = <<>>
  /\ results = <<>>
  /\ by_rank = <<>>
  /\ returned = <<>>
  /\ via = 0
  /\ raised = NoException
  /\ ran = <<>>
  /\ fetches = <<>>
  /\ printed = <<>>

\* one pass of `for url in candidates` whose try block ends in a `continue`
\* or in the except clause
ProbeSkipped ==
  /\ pc = "discover"
  /\ cand < MaxCandidates
  /\ \E r \in Responses :
       /\ r.kind # "json" \/ parse_schedule_payload(r.payload) = <<>>
       /\ probed' = Append(probed, r)
  /\ fetches' = Append(fetches, <<"discover_league_schedule", cand>>)
  /\ cand' = cand + 1
  /\ UNCHANGED <<select_vars, calls, loads, pc, best_games, best_coverage, url, extract_vars, raised, printed,
                 version, merge_vars>>

\* a scoring pass that lets a later candidate win a tie (`>=`)
ProbeScored_LastWins ==
  /\ pc = "discover"
  /\ cand < MaxCandidates
  /\ \E r \in Responses :
       /\ r.kind = "json"
       /\ parse_schedule_payload(r.payload) # <<>>
       /\ probed' = Append(probed, r)
       /\ LET games == parse_schedule_payload(r.payload)
              coverage == Coverage(games)
          IN  IF coverage >= best_coverage
              THEN best_coverage' = coverage /\ best_games' = games
              ELSE UNCHANGED <<best_coverage, best_games>>
  /\ fetches' = Append(fetches, <<"discover_league_schedule", cand>>)
  /\ cand' = cand + 1
  /\ UNCHANGED <<select_vars, calls, loads, pc, url, extract_vars, raised, printed, version, merge_vars>>

\* one pass that reaches `coverage = ...` and `if coverage > best_coverage`
ProbeScored ==
  /\ pc = "discover"
  /\ cand < MaxCandidates
  /\ \E r \in Responses :
       /\ r.kind = "json"
       /\ parse_schedule_payload(r.payload) # <<>>
       /\ probed' = Append(probed, r)
       /\ LET games == parse_schedule_payload(r.payload)
              coverage == Coverage(games)
          IN  IF coverage > best_coverage
              THEN best_coverage' = coverage /\ best_games' = games
              ELSE UNCHANGED <<best_coverage, best_games>>
  /\ fetches' = Append(fetches, <<"discover_league_schedule", cand>>)
  /\ cand' = cand + 1
  /\ UNCHANGED <<select_vars, calls, loads, pc, url, extract_vars, raised, printed, version, merge_vars>>

\* return best_games
DiscoverReturn ==
  /\ pc = "discover"
  /\ cand = MaxCandidates
  /\ league_schedule' = best_games
  /\ pc' = "discovered"
  /\ UNCHANGED <<select_vars, calls, loads, cand, best_games, best_coverage, probed, url, extract_vars, raised,
                 fetches, printed, version, todays_games, future_games, teams, days, by_team>>

NextDiscover == ProbeSkipped \/ ProbeScored \/ DiscoverReturn

SpecDiscover == InitDiscover /\ [][NextDiscover]_vars

(***************************************************************************)
(* Properties                                                              *)
(***************************************************************************)
InParse == pc \in {"strategy1", "strategy2", "strategy3", "return"}

IsPrefix(s, t) == Len(s) <= Len(t) /\ SubSeq(t, 1, Len(s)) = s

ParseFetches == SelectSeq(fetches, LAMBDA f : f[1] = "parse_top_teams_from_article")

\* C1: the strategies of parse_top_teams_from_article run in the order 1, 2,
\* 3; once Strategy 1 has resolved all of 1..N and returned, Strategies 2 and
\* 3 never run, once Strategy 2 has returned Strategy 3 never runs, and the
\* function fetches once, before Strategy 1, and never again.
C1_CascadeShortCircuits ==
  /\ [](/\ IsPrefix(ran, <<1, 2, 3>>)
        /\ (via = 1 => ran = <<1>>)
        /\ (via = 2 => ran = <<1, 2>>)
        /\ (via = 3 => ran = <<1, 2, 3>>)
        /\ (InParse /\ ran # <<>> /\ DOMAIN results = 1..TopN => via = 1)
        /\ Len(ParseFetches) <= 1
        /\ (ran # <<>> => Len(ParseFetches) = 1))
  /\ [][/\ (via # 0 => ran' = ran)
        /\ (ran # <<>> => ParseFetches' = ParseFetches)]_vars

C1_Witness ==
  /\ pc = "done"
  /\ via = 1
  /\ ran = <<1>>
  /\ Len(returned) = TopN

\* C2: a list returned by parse_top_teams_from_article has exactly N entries
\* and entry i is the name assigned to rank i, for every i in 1..N.
C2_ReturnsRanksOneToN ==
  pc = "return" =>
    /\ Len(returned) = TopN
    /\ \A i \in 1..TopN :
         LET assigned == IF via = 1 THEN results ELSE by_rank
         IN  i \in DOMAIN assigned /\ returned[i] = assigned[i]

\* C3: a rank Strategy 1 resolved keeps its name in a list Strategy 2 or 3
\* returns, and when Strategy 1 resolved some ranks and the later strategies
\* resolved exactly the others the extraction succeeds.
C3_PartialResultsCarried ==
  /\ (pc = "return" /\ via \in {2, 3} =>
        \A r \in DOMAIN results : r \in DOMAIN returned /\ returned[r] = results[r])
  /\ (pc \in {"return", "catch"} /\ ran = <<1, 2, 3>> /\ results # <<>>
        /\ DOMAIN by_rank \cap (1..TopN) = (1..TopN) \ DOMAIN results
        => pc = "return")

\* C4: Strategy 3 leaves every rank that Strategy 2 put into by_rank as it is.
C4_LineScanKeepsOrdinalRanks ==
  [][pc = "strategy3" =>
       \A r \in DOMAIN by_rank : r \in DOMAIN by_rank' /\ by_rank'[r] = by_rank[r]]_vars

IsExtractionError(e) ==
  /\ e # NoException
  /\ e.exc = "RuntimeError"
  /\ e.msg = "Could not extract top teams from the article at"

\* C5: when a rank of 1..N is unresolved after the three strategies the
\* function returns nothing and raises the extraction error that carries the
\* article's URL, and main then prints the error line and nothing else.
C5_ExtractionErrorIsFatal ==
  /\ (pc \in {"return", "catch"} /\ ran = <<1, 2, 3>>
        /\ (\E r \in 1..TopN : r \notin DOMAIN by_rank)
        => pc = "catch" /\ IsExtractionError(raised) /\ raised.url = url /\ returned = <<>>)
  /\ (IsExtractionError(raised) =>
        /\ pc \in {"catch", "failed"}
        /\ ran = <<1, 2, 3>>
        /\ returned = <<>>
        /\ by_team = <<>>
        /\ printed = IF pc = "failed" THEN <<Line("ERROR", raised)>> ELSE <<>>)

C5_Witness ==
  /\ pc = "failed"
  /\ IsExtractionError(raised)
  /\ raised.url = url
  /\ url \in ARTICLE_URLS
  /\ Len(printed) = 1

(***************************************************************************)
(* Where an output entry comes from: the entries a batch alone yields for  *)
(* key k on date d, in batch order.                                        *)
(***************************************************************************)
RECURSIVE EntriesOf(_, _, _)
EntriesOf(batch, k, d) ==
  IF batch = <<>> THEN <<>>
  ELSE LET g == Head(batch)
           want == Want(teams)
       IN  (IF g.date = d /\ g.home = k /\ _clean(k) \in want THEN <<<<d, g.away, "HOME">>>> ELSE <<>>)
           \o (IF g.date = d /\ g.away = k /\ _clean(k) \in want THEN <<<<d, g.home, "AWAY">>>> ELSE <<>>)
           \o EntriesOf(Tail(batch), k, d)

NamesOnFeeds ==
  {g.home : g \in LiveGames \cup ScheduleGames \cup EspnGames}
    \cup {g.away : g \in LiveGames \cup ScheduleGames \cup EspnGames}

\* the entries of by_team[k] dated d
OutOn(k, d) ==
  IF k \in DOMAIN by_team THEN SelectSeq(by_team[k], LAMBDA e : e[1] = d) ELSE <<>>

RECURSIVE IsSubsequence(_, _)
IsSubsequence(s, t) ==
  IF s = <<>> THEN TRUE
  ELSE IF t = <<>> THEN FALSE
  ELSE IF Head(s) = Head(t) THEN IsSubsequence(Tail(s), Tail(t))
  ELSE IsSubsequence(s, Tail(t))

HasRecordOn(batch, d) == \E i \in 1..Len(batch) : batch[i].date = d

\* C6: every output entry dated today comes from the live batch; the records
\* dated today of the season schedule and of the per-day batch are discarded.
C6_TodayOnlyFromLive ==
  pc = "merged" =>
    \A k \in NamesOnFeeds : IsSubsequence(OutOn(k, today), EntriesOf(todays_games, k, today))

\* C7: every output entry's date d satisfies today <= d <= today + days - 1.
C7_EntriesInsideWindow ==
  pc = "merged" =>
    \A k \in DOMAIN by_team : \A i \in 1..Len(by_team[k]) :
      today <= by_team[k][i][1] /\ by_team[k][i][1] <= today + days - 1

SecondBatch == IF version = "main8" THEN league_schedule ELSE future_games

Usable(i) == probed[i].kind = "json" /\ parse_schedule_payload(probed[i].payload) # <<>>

ScoreOf(i) == Coverage(parse_schedule_payload(probed[i].payload))

\* C9: discover_league_schedule returns the games of the usable candidate
\* with the greatest coverage of [today, today+30], the first probed among
\* equals, and the empty list when no candidate is usable.
C9_BestCoverageFirstWins ==
  pc = "discovered" =>
    LET usable == {i \in 1..Len(probed) : Usable(i)}
    IN  IF usable = {} THEN league_schedule = <<>>
        ELSE \E i \in usable :
               /\ league_schedule = parse_schedule_payload(probed[i].payload)
               /\ \A j \in usable : ScoreOf(j) <= ScoreOf(i)
               /\ \A j \in usable : j < i => ScoreOf(j) < ScoreOf(i)

C9_Witness ==
  /\ pc = "discovered"
  /\ Len(probed) = MaxCandidates
  /\ ~Usable(1)
  /\ Usable(2)
  /\ Usable(MaxCandidates)
  /\ ScoreOf(2) = ScoreOf(MaxCandidates)
  /\ parse_schedule_payload(probed[2].payload) # parse_schedule_payload(probed[MaxCandidates].payload)
  /\ league_schedule = parse_schedule_payload(probed[2].payload)

\* C10: no output list holds two entries with the same date, opponent and
\* venue.
C10_NoDuplicateEntries ==
  pc = "merged" =>
    \A k \in DOMAIN by_team : \A i, j \in 1..Len(by_team[k]) :
      i # j => by_team[k][i] # by_team[k][j]

\* C11: every list of the output of upcoming_opponents_next_week is in
\* non-decreasing date order, whatever the order of the records in the batches.
C11_EntriesAscendByDate ==
  pc = "merged" =>
    \A k \in DOMAIN by_team : \A i, j \in 1..Len(by_team[k]) :
      i < j => by_team[k][i][1] <= by_team[k][j][1]

C11_Witness ==
  /\ pc = "merged"
  /\ version = "main9"
  /\ days = DAYS
  /\ future_games = <<Game(today + 2, Nuggets, Clippers), Game(today + 1, Nuggets, Clippers)>>
  /\ Clippers \in DOMAIN by_team
  /\ by_team[Clippers] = <<<<today + 1, Nuggets, "AWAY">>, <<today + 2, Nuggets, "AWAY">>>>

(***************************************************************************)
(* Article selection (get_latest_power_rankings_article).  A page is what  *)
(* a candidate URL answers: its flattened text and the two places a        *)
(* publish time is read from.  A datetime is [aware, t]: t counts hours,   *)
(* of UTC when the value carries an offset (aware), of the wall clock when *)
(* it does not (naive).                                                    *)
(***************************************************************************)
None == <<>>

MIN_MARKERS == 2

MIN_TEAM_HITS == 10

VALIDATE_LIMIT == 12

\* re.finditer(r"(?:^|\s)#\d{1,2}(?:\s|$)", text) from position i on: a match
\* takes the whitespace before the "#" and the whitespace after the digits
RECURSIVE MarkersFrom(_, _)
MarkersFrom(text, i) ==
  IF i > Len(text) THEN 0
  ELSE LET hash == IF i = 1 /\ text[1] = "#" THEN 1
                   ELSE IF IsSpace(text[i]) /\ i + 1 <= Len(text) /\ text[i + 1] = "#" THEN i + 1
                   ELSE 0
           last == hash + 2
           hit == /\ hash # 0
                  /\ hash + 1 <= Len(text)
                  /\ IsNumeral(text[hash + 1])
                  /\ (last > Len(text) \/ IsSpace(text[last]))
       IN  IF hit
           THEN 1 + MarkersFrom(text, IF last > Len(text) THEN last ELSE last + 1)
           ELSE MarkersFrom(text, i + 1)

\* sum(1 for t in CANON_TEAMS if t in text)
TeamHits(text) == Cardinality({i \in 1..Len(CANON_TEAMS) : Contains(CANON_TEAMS[i], text)})

\* art is the flattened text of `soup.find("article") or soup`
_looks_like_power_rankings_article(art) ==
  LET text == Normalize(art)
      markers == MarkersFrom(text, 1)
      team_hits == TeamHits(text)
  IN  markers >= MIN_MARKERS \/ team_hits >= MIN_TEAM_HITS

Naive(t) == [aware |-> FALSE, t |-> t]

Aware(t) == [aware |-> TRUE, t |-> t]

\* the value of a content or datetime attribute: its form ("Z": ...T..:..:..Z,
\* "offset": ...T..:..:..+hh:mm, "local": ...T..:..:.., "date": yyyy-mm-dd,
\* "other": none of these), the wall-clock time written and the offset
Stamp(form, t, off) == [form |-> form, t |-> t, off |-> off]

\* the strptime loop over "%Y-%m-%dT%H:%M:%SZ", "%Y-%m-%dT%H:%M:%S%z", "%Y-%m-%d"
ParseMeta(c) ==
  IF c.form = "Z" THEN Naive(c.t)
  ELSE IF c.form = "offset" THEN Aware(c.t - c.off)
  ELSE IF c.form = "date" THEN Naive(c.t)
  ELSE None

\* dt.datetime.fromisoformat(t["datetime"].replace("Z", "+00:00"))
ParseIso(c) ==
  IF c.form = "Z" THEN Aware(c.t)
  ELSE IF c.form = "offset" THEN Aware(c.t - c.off)
  ELSE IF c.form \in {"local", "date"} THEN Naive(c.t)
  ELSE None

_extract_publish_time(page) ==
  LET fromMeta == IF page.meta # None THEN ParseMeta(page.meta) ELSE None
  IN  IF fromMeta # None THEN fromMeta
      ELSE IF page.time # None THEN ParseIso(page.time)
      ELSE None

\* dt.datetime.min.replace(tzinfo=None)
DATETIME_MIN == Naive(0)

\* seen, ordered: first occurrences, in order
RECURSIVE Dedupe(_, _)
Dedupe(us, seen) ==
  IF us = <<>> THEN <<>>
  ELSE IF Head(us) \in seen THEN Dedupe(Tail(us), seen)
  ELSE <<Head(us)>> \o Dedupe(Tail(us), seen \cup {Head(us)})

\* a validation loop over the whole list (`for u in ordered`)
FirstK_WholeList(seq) == seq

\* ordered[:12]
FirstK(seq) == SubSeq(seq, 1, IF Len(seq) < VALIDATE_LIMIT THEN Len(seq) ELSE VALIDATE_LIMIT)

\* comparing a naive with an aware datetime raises TypeError
Comparable(sc) == \A i, j \in 1..Len(sc) : sc[i][1].aware = sc[j][1].aware

\* sorted(scored, key=lambda x: x[0], reverse=True)[0][1]: the sort is stable
Freshest(sc) ==
  LET top == {i \in 1..Len(sc) : \A j \in 1..Len(sc) : sc[j][1].t <= sc[i][1].t}
  IN  sc[CHOOSE i \in top : \A j \in top : i <= j][2]

MaxLinks == 3

INDEX_CANDIDATES == <<"/news/category/power-rankings", "/news/power-rankings">>

\* raise RuntimeError("Could not find any Power Rankings article links on index pages.")
NoLinksError ==
  [exc |-> "RuntimeError",
   msg |-> "Could not find any Power Rankings article links on index pages.",
   url |-> ""]

CANDIDATE_HREFS ==
  {"/news/power-rankings-week-1", "/news/power-rankings-week-2", "/news/power-rankings-week-3"}

RankedText == <<"#", "1", " ", "Preview", "\n", "#", "2", " ", "Preview">>

PlainText == <<"Preview">>

\* (meta content, <time datetime>) of the pages served
StampChoices ==
  { <<Stamp("Z", 30, 0), None>>,
    <<Stamp("offset", 30, 2), None>>,
    <<Stamp("date", 24, 0), None>>,
    <<Stamp("other", 0, 0), Stamp("Z", 29, 0)>>,
    <<None, Stamp("local", 31, 0)>>,
    <<None, None>> }

Page(text, meta, time) == [kind |-> "page", text |-> text, meta |-> meta, time |-> time]

\* what a candidate answers: the request raises, a status other than 200, or
\* a page
CandidateResponses ==
  {[kind |-> k, text |-> <<>>, meta |-> None, time |-> None] : k \in {"raises", "not200"}}
    \cup {Page(PlainText, None, None)}
    \cup {Page(RankedText, s[1], s[2]) : s \in StampChoices}

Scores(r) == r.kind = "page" /\ _looks_like_power_rankings_article(r.text)

\* an index page of a whole season: fourteen articles, two of them linked twice
SeasonListing ==
  << "/news/power-rankings-week-1", "/news/power-rankings-week-2",
     "/news/power-rankings-week-1", "/news/power-rankings-week-3",
     "/news/power-rankings-week-4", "/news/power-rankings-week-5",
     "/news/power-rankings-week-6", "/news/power-rankings-week-7",
     "/news/power-rankings-week-8", "/news/power-rankings-week-9",
     "/news/power-rankings-week-10", "/news/power-rankings-week-11",
     "/news/power-rankings-week-12", "/news/power-rankings-week-13",
     "/news/power-rankings-week-2", "/news/power-rankings-week-14" >>

\* the valid hrefs an index page may hold, given those collected before it:
\* up to MaxLinks in all, or the season's listing on the first page that has any
ListingChoices(collected) ==
  IF collected = <<>>
  THEN SeqsUpTo(CANDIDATE_HREFS, MaxLinks) \cup {SeasonListing}
  ELSE SeqsUpTo(CANDIDATE_HREFS, IF Len(collected) < MaxLinks THEN MaxLinks - Len(collected) ELSE 0)

\* what the candidates of a list may answer: anything for a short list, a
\* failure or one ranked page for the season's list
AnswersFor(list) ==
  IF Len(list) <= MaxLinks THEN CandidateResponses
  ELSE {r \in CandidateResponses :
          r.kind = "not200" \/ (r.kind = "page" /\ r.meta = Stamp("Z", 30, 0))}

InitSelect ==
  /\ pc = "index"
  /\ version = "main9"
  /\ discover_vars_init
  /\ loads = <<>>
  /\ select_vars_init
  /\ calls = <<>>
  /\ league_schedule = <<>>
  /\ todays_games = <<>>
  /\ future_games = <<>>
  /\ teams = <<>>
  /\ days = DAYS
  /\ by_team = <<>>
  /\ url = ""
  /\ article = <<>>
  /\ results = <<>>
  /\ by_rank = <<>>
  /\ returned = <<>>
  /\ via = 0
  /\ raised = NoException
  /\ ran = <<>>
  /\ fetches = <<>>
  /\ printed = <<>>

\* one pass of `for url in INDEX_CANDIDATES` whose page answers: the hrefs
\* that pass _is_valid_article_href are appended to candidates
ListingAnswers ==
  /\ pc = "index"
  /\ Len(listings) < Len(INDEX_CANDIDATES)
  /\ \E hrefs \in ListingChoices(candidates) :
       /\ listings' = Append(listings, [kind |-> "page", links |-> hrefs])
       /\ candidates' = candidates \o hrefs
  /\ fetches' = Append(fetches, <<"get_latest_power_rankings_article",
                                  INDEX_CANDIDATES[Len(listings) + 1]>>)
  /\ UNCHANGED <<pc, ordered, scored, pages, calls, discover_vars, loads, url, extract_vars,
                 merge_vars, raised, printed, version>>

\* one pass whose session.get raises, or whose status makes
\* r.raise_for_status() raise: the exception leaves the function
ListingFails ==
  /\ pc = "index"
  /\ Len(listings) < Len(INDEX_CANDIDATES)
  /\ \E k \in {"raises", "not2xx"} :
       /\ listings' = Append(listings, [kind |-> k, links |-> <<>>])
       /\ raised' = [exc |-> IF k = "raises" THEN "ConnectionError" ELSE "HTTPError",
                     msg |-> "", url |-> INDEX_CANDIDATES[Len(listings) + 1]]
  /\ fetches' = Append(fetches, <<"get_latest_power_rankings_article",
                                  INDEX_CANDIDATES[Len(listings) + 1]>>)
  /\ pc' = "select_failed"
  /\ UNCHANGED <<candidates, ordered, scored, pages, calls, discover_vars, loads, url, extract_vars,
                 merge_vars, printed, version>>

\* after the loop over INDEX_CANDIDATES: the dedupe and `if not ordered: raise`
CollectLinks ==
  /\ pc = "index"
  /\ Len(listings) = Len(INDEX_CANDIDATES)
  /\ ordered' = Dedupe(candidates, {})
  /\ IF ordered' = <<>>
     THEN /\ raised' = NoLinksError
          /\ pc' = "select_failed"
     ELSE /\ raised' = raised
          /\ pc' = "validate"
  /\ UNCHANGED <<candidates, scored, pages, listings, calls, discover_vars, loads, url, extract_vars,
                 merge_vars, fetches, printed, version>>

\* one pass of `for u in ordered[:12]` that ends in a `continue` or in the
\* except clause
ValidateSkipped ==
  /\ pc = "validate"
  /\ Len(pages) < Len(FirstK(ordered))
  /\ \E r \in AnswersFor(ordered) :
       /\ ~Scores(r)
       /\ pages' = Append(pages, r)
  /\ fetches' = Append(fetches, <<"get_latest_power_rankings_article", ordered[Len(pages) + 1]>>)
  /\ UNCHANGED <<pc, candidates, ordered, scored, listings, calls, discover_vars, loads, url,
                 extract_vars, merge_vars, raised, printed, version>>

\* one pass that reaches scored.append((ts, u))
ValidateScored ==
  /\ pc = "validate"
  /\ Len(pages) < Len(FirstK(ordered))
  /\ \E r \in AnswersFor(ordered) :
       /\ Scores(r)
       /\ pages' = Append(pages, r)
       /\ LET found == _extract_publish_time(r)
              ts == IF found # None THEN found ELSE DATETIME_MIN
          IN  scored' = Append(scored, <<ts, ordered[Len(pages) + 1]>>)
  /\ fetches' = Append(fetches, <<"get_latest_power_rankings_article", ordered[Len(pages) + 1]>>)
  /\ UNCHANGED <<pc, candidates, ordered, listings, calls, discover_vars, loads, url, extract_vars,
                 merge_vars, raised, printed, version>>

\* a last statement that falls back to the last candidate
ReturnFreshest_FallsBackToLast ==
  /\ pc = "validate"
  /\ Len(pages) = Len(FirstK(ordered))
  /\ IF scored = <<>>
     THEN url' = ordered[Len(ordered)] /\ pc' = "selected" /\ raised' = raised
     ELSE IF Comparable(scored)
     THEN url' = Freshest(scored) /\ pc' = "selected" /\ raised' = raised
     ELSE /\ raised' = [exc |-> "TypeError",
                        msg |-> "can't compare offset-naive and offset-aware datetimes",
                        url |-> ""]
          /\ pc' = "select_failed"
          /\ url' = url
  /\ UNCHANGED <<select_vars, calls, discover_vars, loads, extract_vars, merge_vars, fetches, printed,
                 version>>

\* return (sorted(scored, ...)[0][1]) if scored else ordered[0]
ReturnFreshest ==
  /\ pc = "validate"
  /\ Len(pages) = Len(FirstK(ordered))
  /\ IF scored = <<>>
     THEN url' = ordered[1] /\ pc' = "selected" /\ raised' = raised
     ELSE IF Comparable(scored)
     THEN url' = Freshest(scored) /\ pc' = "selected" /\ raised' = raised
     ELSE /\ raised' = [exc |-> "TypeError",
                        msg |-> "can't compare offset-naive and offset-aware datetimes",
                        url |-> ""]
          /\ pc' = "select_failed"
          /\ url' = url
  /\ UNCHANGED <<select_vars, calls, discover_vars, loads, extract_vars, merge_vars, fetches, printed,
                 version>>

NextSelect == ListingAnswers \/ ListingFails \/ CollectLinks \/ ValidateSkipped \/ ValidateScored \/ ReturnFreshest

SpecSelect == InitSelect /\ [][NextSelect]_vars

SelectEnded == pc \in {"selected", "select_failed"} /\ ordered # <<>>

PlausibleAt == {i \in 1..Len(pages) : Scores(pages[i])}

\* the publish time of validated candidate i as a point in time; no
\* parseable timestamp is the oldest possible value
InstantAt(i) ==
  LET ts == _extract_publish_time(pages[i])
  IN  IF ts = None THEN -1 ELSE ts.t

\* C12: when one of the validated candidates is plausible,
\* get_latest_power_rankings_article returns a plausible candidate whose
\* publish time is at least that of every other plausible candidate, whatever
\* the formats the timestamps are written in.
C12_ReturnsFreshestPlausible ==
  SelectEnded /\ PlausibleAt # {} =>
    /\ pc = "selected"
    /\ \E i \in PlausibleAt :
         /\ url = ordered[i]
         /\ \A j \in PlausibleAt : InstantAt(j) <= InstantAt(i)

\* C13: when no validated candidate is plausible the function returns the
\* first candidate of the deduplicated list, and in every other case the
\* URL it returns is that of a plausible candidate.
C13_FallsBackToFirst ==
  /\ (SelectEnded /\ PlausibleAt = {} => pc = "selected" /\ url = ordered[1])
  /\ (pc = "selected" /\ PlausibleAt # {} => \E i \in PlausibleAt : url = ordered[i])

C13_Witness ==
  /\ pc = "selected"
  /\ Len(ordered) = 3
  /\ Len(candidates) = 3
  /\ pages[1].kind = "not200"
  /\ pages[2].kind = "raises"
  /\ pages[3].kind = "page"
  /\ PlausibleAt = {}
  /\ url = ordered[1]

\* C14: a candidate whose fetch fails is only left out of the scoring: every
\* candidate of the first K is still fetched and the function returns a URL.
C14_FetchFailureSkipsCandidate ==
  SelectEnded /\ (\E i \in 1..Len(pages) : pages[i].kind \in {"raises", "not200"}) =>
    /\ Len(pages) = Len(FirstK(ordered))
    /\ \A i \in 1..Len(pages) : Scores(pages[i]) => \E j \in 1..Len(scored) : scored[j][2] = ordered[i]
    /\ pc = "selected"
    /\ \E i \in 1..Len(ordered) : url = ordered[i]

(***************************************************************************)
(* The name functions and the article heuristic as functions of their      *)
(* argument: the argument of a first call is drawn from a bounded set of   *)
(* strings, a later call is given the result of the call before it.        *)
(***************************************************************************)
MaxNameLen == 3

MaxCalls == 2

MaxItems == 3

NameTokens == {"LA", "la", " ", ".", "-", "Clippers", "76ers"}

\* a str never holds two adjacent word tokens: they would be one word
WellFormed(s) == \A i \in 1..(Len(s) - 1) : ~(IsWord(s[i]) /\ IsWord(s[i + 1]))

ShortNames == {s \in SeqsUpTo(NameTokens, MaxNameLen) : WellFormed(s)}

\* str.upper on the words of the roster and of the alias keys
UpperTable ==
  { <<"76ers", "76ERS">>, <<"angeles", "ANGELES">>, <<"antonio", "ANTONIO">>, <<"atlanta", "ATLANTA">>,
    <<"blazers", "BLAZERS">>, <<"boston", "BOSTON">>, <<"brooklyn", "BROOKLYN">>, <<"bucks", "BUCKS">>,
    <<"bulls", "BULLS">>, <<"cavaliers", "CAVALIERS">>, <<"celtics", "CELTICS">>, <<"charlotte", "CHARLOTTE">>,
    <<"chicago", "CHICAGO">>, <<"city", "CITY">>, <<"cleveland", "CLEVELAND">>, <<"clippers", "CLIPPERS">>,
    <<"dallas", "DALLAS">>, <<"denver", "DENVER">>, <<"detroit", "DETROIT">>, <<"golden", "GOLDEN">>,
    <<"grizzlies", "GRIZZLIES">>, <<"gs", "GS">>, <<"hawks", "HAWKS">>, <<"heat", "HEAT">>,
    <<"hornets", "HORNETS">>, <<"houston", "HOUSTON">>, <<"indiana", "INDIANA">>, <<"jazz", "JAZZ">>,
    <<"kings", "KINGS">>, <<"knicks", "KNICKS">>, <<"la", "LA">>, <<"lakers", "LAKERS">>,
    <<"los", "LOS">>, <<"magic", "MAGIC">>, <<"mavericks", "MAVERICKS">>, <<"memphis", "MEMPHIS">>,
    <<"miami", "MIAMI">>, <<"milwaukee", "MILWAUKEE">>, <<"minnesota", "MINNESOTA">>, <<"nets", "NETS">>,
    <<"new", "NEW">>, <<"nuggets", "NUGGETS">>, <<"ny", "NY">>, <<"okc", "OKC">>,
    <<"oklahoma", "OKLAHOMA">>, <<"orlando", "ORLANDO">>, <<"orleans", "ORLEANS">>, <<"pacers", "PACERS">>,
    <<"pelicans", "PELICANS">>, <<"philadelphia", "PHILADELPHIA">>, <<"phoenix", "PHOENIX">>, <<"phx", "PHX">>,
    <<"pistons", "PISTONS">>, <<"portland", "PORTLAND">>, <<"raptors", "RAPTORS">>, <<"rockets", "ROCKETS">>,
    <<"sacramento", "SACRAMENTO">>, <<"san", "SAN">>, <<"spurs", "SPURS">>, <<"state", "STATE">>,
    <<"suns", "SUNS">>, <<"thunder", "THUNDER">>, <<"timberwolves", "TIMBERWOLVES">>, <<"toronto", "TORONTO">>,
    <<"trail", "TRAIL">>, <<"utah", "UTAH">>, <<"warriors", "WARRIORS">>, <<"washington", "WASHINGTON">>,
    <<"wizards", "WIZARDS">>, <<"york", "YORK">> }

upper(s) ==
  [i \in 1..Len(s) |->
     IF \E p \in UpperTable : p[1] = s[i] THEN (CHOOSE p \in UpperTable : p[1] = s[i])[2] ELSE s[i]]

\* "LA Clippers" for "Los Angeles Clippers"
LAForms ==
  {<<"LA">> \o SubSeq(CANON_TEAMS[i], 4, Len(CANON_TEAMS[i])) :
     i \in {j \in 1..Len(CANON_TEAMS) : CANON_TEAMS[j][1] = "Los" /\ CANON_TEAMS[j][3] = "Angeles"}}

RECURSIVE Replace(_, _, _)
Replace(s, tok, by) ==
  IF s = <<>> THEN <<>>
  ELSE (IF Head(s) = tok THEN by ELSE <<Head(s)>>) \o Replace(Tail(s), tok, by)

\* spellings that differ from s in letter case, punctuation or whitespace runs
Variants(s) ==
  { s, lower(s), upper(lower(s)),
    <<" ">> \o s \o <<" ", "\t">>,
    Replace(s, " ", <<" ", " ">>),
    Replace(s, " ", <<"-">>),
    s \o <<".">>,
    Replace(Replace(s, "LA", <<"L", ".", "A", ".">>), "la", <<"l", ".", "a", ".">>) }

UnknownNames == {<<"Team", " ", "LeBron">>, <<" ", "Sixers", "\t">>, <<"\n", "Team", " ", " ", "LeBron", ".">>}

NameInputs ==
  ShortNames
    \cup UNION {Variants(CANON_TEAMS[i]) : i \in 1..Len(CANON_TEAMS)}
    \cup UNION {Variants(p[1]) : p \in ALIASES}
    \cup UNION {Variants(s) : s \in LAForms}
    \cup UnknownNames

TextItems == {<<"#", "1">>, <<"#", "2">>, <<"#", "123">>, <<"Preview">>}

\* the first n display names, comma separated
RosterText(n) == Join(SubSeq(CANON_TEAMS, 1, n), <<",", " ">>)

ArticleTexts ==
  {Join(s, <<" ">>) : s \in SeqsUpTo(TextItems, MaxItems)}
    \cup {RosterText(MIN_TEAM_HITS - 1), RosterText(MIN_TEAM_HITS)}
    \cup {<<"#", "1", " ">> \o RosterText(MIN_TEAM_HITS - 1)}
    \cup {<<"#", "1", " ", "\n", "Preview", "\t", "#", "2", "\n">>, <<"\n", "#", "1", "\n", "\n", "#", "2">>}

Call(fn, arg, out) == [fn |-> fn, arg |-> arg, out |-> out]

\* what the next call is given
NextArgs ==
  IF calls = <<>> THEN NameInputs
  ELSE IF calls[Len(calls)].fn \in {"_clean", "canonicalize"} THEN {calls[Len(calls)].out}
  ELSE {}

InitNames ==
  /\ pc = "names"
  /\ version = "main9"
  /\ discover_vars_init
  /\ loads = <<>>
  /\ select_vars_init
  /\ calls = <<>>
  /\ league_schedule = <<>>
  /\ todays_games = <<>>
  /\ future_games = <<>>
  /\ teams = <<>>
  /\ days = DAYS
  /\ by_team = <<>>
  /\ url = ""
  /\ article = <<>>
  /\ results = <<>>
  /\ by_rank = <<>>
  /\ returned = <<>>
  /\ via = 0
  /\ raised = NoException
  /\ ran = <<>>
  /\ fetches = <<>>
  /\ printed = <<>>

names_frame ==
  UNCHANGED <<pc, select_vars, discover_vars, loads, url, extract_vars, merge_vars, raised, fetches,
              printed, version>>

CallClean ==
  /\ Len(calls) < MaxCalls
  /\ \E arg \in NextArgs : calls' = Append(calls, Call("_clean", arg, _clean(arg)))
  /\ names_frame

CallCanonicalize ==
  /\ Len(calls) < MaxCalls
  /\ \E arg \in NextArgs : calls' = Append(calls, Call("canonicalize", arg, canonicalize(arg)))
  /\ names_frame

CallIsTeamName ==
  /\ Len(calls) < MaxCalls
  /\ \E arg \in NextArgs : calls' = Append(calls, Call("is_team_name", arg, is_team_name(arg)))
  /\ names_frame

CallLooksLike ==
  /\ calls = <<>>
  /\ \E art \in ArticleTexts :
       calls' = Append(calls, Call("_looks_like_power_rankings_article", art,
                                   _looks_like_power_rankings_article(art)))
  /\ names_frame

NextNames == CallClean \/ CallCanonicalize \/ CallIsTeamName \/ CallLooksLike

SpecNames == InitNames /\ [][NextNames]_vars

CallsOf(fn) == {i \in 1..Len(calls) : calls[i].fn = fn}

\* the rank markers of a text: "#" and one or two digits, with whitespace or
\* an end of the text on either side
DelimitedMarkers(text) ==
  {h \in 1..Len(text) :
     /\ text[h] = "#"
     /\ (h = 1 \/ IsSpace(text[h - 1]))
     /\ h + 1 <= Len(text)
     /\ IsNumeral(text[h + 1])
     /\ (h + 2 > Len(text) \/ IsSpace(text[h + 2]))}

NamedTeams(text) == {i \in 1..Len(CANON_TEAMS) : Contains(CANON_TEAMS[i], text)}

\* C15: _looks_like_power_rankings_article holds of a document exactly when
\* its text has at least 2 whitespace-delimited rank markers, adjacent ones
\* included, or names at least 10 distinct roster teams.
C15_PlausibleIffMarkersOrTeams ==
  \A i \in CallsOf("_looks_like_power_rankings_article") :
    calls[i].out =
      (\/ Cardinality(DelimitedMarkers(calls[i].arg)) >= 2
       \/ Cardinality(NamedTeams(calls[i].arg)) >= 10)

\* C16: _clean(_clean(x)) = _clean(x) for every string x.
C16_CleanIdempotent ==
  \A i \in CallsOf("_clean") :
    i > 1 /\ calls[i - 1].fn = "_clean" /\ calls[i].arg = calls[i - 1].out
      => calls[i].out = calls[i - 1].out

C16_Witness ==
  /\ Len(calls) = 2
  /\ calls[1] = Call("_clean", <<"LA", "-", "Clippers">>, <<"los", " ", "angeles", " ", "clippers">>)
  /\ calls[2].fn = "_clean"
  /\ calls[2].arg = calls[1].out

\* C17: canonicalize(canonicalize(x)) = canonicalize(x) for every string x.
C17_CanonicalizeFixedPoint ==
  \A i \in CallsOf("canonicalize") :
    i > 1 /\ calls[i - 1].fn = "canonicalize" /\ calls[i].arg = calls[i - 1].out
      => calls[i].out = calls[i - 1].out

C17_Witness ==
  /\ Len(calls) = 2
  /\ calls[1] = Call("canonicalize", <<" ", "76ers", " ", "\t">>, <<"Philadelphia", " ", "76ers">>)
  /\ calls[2].fn = "canonicalize"
  /\ calls[2].arg = calls[1].out

\* the known spellings of roster team i: its display name, the alias keys
\* that map to it, its "LA" form, and their variants
SpellingsOf(i) ==
  UNION {Variants(s) :
           s \in {CANON_TEAMS[i]}
                   \cup {p[1] : p \in {q \in ALIASES : q[2] = lower(CANON_TEAMS[i])}}
                   \cup {f \in LAForms : SubSeq(f, 2, Len(f)) = SubSeq(CANON_TEAMS[i], 4, Len(CANON_TEAMS[i]))
                                          /\ CANON_TEAMS[i][1] = "Los"}}

\* C18: canonicalize maps every known spelling of a roster team to that
\* team's entry of CANON_TEAMS, and no two roster teams share a normalized
\* key.
C18_SpellingsShareDisplayName ==
  /\ \A i, j \in 1..Len(CANON_TEAMS) : i # j => _clean(CANON_TEAMS[i]) # _clean(CANON_TEAMS[j])
  /\ \A c \in CallsOf("canonicalize") : \A i \in 1..Len(CANON_TEAMS) :
       calls[c].arg \in SpellingsOf(i) => calls[c].out = CANON_TEAMS[i]

\* out is arg without its leading and trailing whitespace
IsTrimOf(out, arg) ==
  /\ \E a, b \in 0..Len(arg) :
       /\ a + b <= Len(arg)
       /\ out = SubSeq(arg, a + 1, Len(arg) - b)
       /\ \A k \in (1..a) \cup ((Len(arg) - b + 1)..Len(arg)) : IsSpace(arg[k])
  /\ out # <<>> => ~IsSpace(out[1]) /\ ~IsSpace(out[Len(out)])

\* C19: canonicalize returns, for a name whose normalized key is that of a
\* roster team, the team's display name, and for any other string the string
\* without its leading and trailing whitespace, unchanged otherwise.
C19_UnknownNamesPassThrough ==
  \A c \in CallsOf("canonicalize") :
    LET known == {i \in 1..Len(CANON_TEAMS) : _clean(CANON_TEAMS[i]) = _clean(calls[c].arg)}
    IN  IF known # {}
        THEN \E i \in known : calls[c].out = CANON_TEAMS[i]
        ELSE IsTrimOf(calls[c].out, calls[c].arg)

C19_Witness ==
  /\ Len(calls) = 2
  /\ calls[1] = Call("canonicalize", <<"\n", "Team", " ", " ", "LeBron", ".">>, <<"Team", " ", " ", "LeBron", ".">>)
  /\ calls[2] = Call("is_team_name", calls[1].out, FALSE)

(***************************************************************************)
(* Ranked articles: every rank marker followed by a team link              *)
(* (parse_top_teams_from_article, src/main9.py)                            *)
(***************************************************************************)
MaxRankedLen == 5

\* <div><span>#r</span><a href="/team/clippers">name</a></div>
Section(r, name) == Tag("div", <<>>, <<Marker(r), TeamLink(name)>>)

\* what a ranked article is laid out from: the markers, two team links, a
\* paragraph of prose naming a team and the last rank's entry in a container
RankedElems ==
  {Marker(r) : r \in 1..TopN}
    \cup {TeamLink(LAClippers), TeamLink(Nuggets), Paragraph(Celtics), Section(TopN, Nuggets)}

RankedDocuments == UNION {[1..n -> RankedElems] : n \in 0..MaxRankedLen}

InitRanked ==
  /\ pc = "parse"
  /\ url = "/news/power-rankings-week-1"
  /\ article = <<>>
  /\ results = <<>>
  /\ by_rank = <<>>
  /\ returned = <<>>
  /\ via = 0
  /\ raised = NoException
  /\ ran = <<>>
  /\ fetches = <<>>
  /\ printed = <<>>
  /\ version = "main9"
  /\ todays_games = <<>>
  /\ league_schedule = <<>>
  /\ future_games = <<>>
  /\ teams = <<>>
  /\ days = DAYS
  /\ by_team = <<>>
  /\ discover_vars_init
  /\ loads = <<>>
  /\ select_vars_init
  /\ calls = <<>>

\* `r = requests.get(url, ...)`, `soup = BeautifulSoup(r.text, ...)`,
\* `article = soup.find("article") or soup`
FetchRanked ==
  /\ pc = "parse"
  /\ fetches' = Append(fetches, <<"parse_top_teams_from_article", url>>)
  /\ article' \in RankedDocuments
  /\ pc' = "strategy1"
  /\ UNCHANGED <<select_vars, calls, discover_vars, loads, url, results, by_rank, returned, via, raised, ran, merge_vars, printed, version>>

NextRanked == FetchRanked \/ Strategy1 \/ Strategy2 \/ Strategy3

SpecRanked == InitRanked /\ [][NextRanked]_vars

\* a link to a team page whose text is a known name
IsKnownTeamLink(node) ==
  /\ IsTag(node)
  /\ node.name = "a"
  /\ HasTeamPath(node.href)
  /\ is_team_name(NodeText(node, <<" ">>, TRUE))

\* the positions after nodes[i], inside the lookahead window and before the
\* next rank's marker, that hold a known team link
LinksAfter(nodes, i, rank) ==
  {j \in (i + 1)..Len(nodes) :
     /\ j - i < LOOKAHEAD
     /\ IsKnownTeamLink(nodes[j])
     /\ \A k \in (i + 1)..(j - 1) : ~is_rank_marker(nodes[k], rank + 1)}

MarkersOf(nodes, rank) == {i \in 1..Len(nodes) : is_rank_marker(nodes[i], rank)}

Least(S) == CHOOSE x \in S : \A y \in S : x <= y

\* every rank in 1..top_n has a marker node, and every marker node is
\* followed by a known team link
IsRankedArticle(kids, top_n) ==
  LET nodes == descendants(kids)
  IN  \A r \in 1..top_n :
        /\ MarkersOf(nodes, r) # {}
        /\ \A i \in MarkersOf(nodes, r) : LinksAfter(nodes, i, r) # {}

\* E_r: the team the first link after the first marker of rank r names
LinkedTeam(kids, rank) ==
  LET nodes == descendants(kids)
      i == Least(MarkersOf(nodes, rank))
      j == Least(LinksAfter(nodes, i, rank))
  IN  canonicalize(NodeText(nodes[j], <<" ">>, TRUE))

ParseEnded == pc \in {"return", "catch"}

\* C20: whenever every marker "#r" (r in 1..N) of the article is followed,
\* inside the lookahead window and before the marker "#r+1", by a link to a
\* team page whose text is a known team E_r, the parse returns
\* [E_1, ..., E_N] in rank order through the marker scan.
C20_RankedArticleReturnsLinkedTeams ==
  (ParseEnded /\ IsRankedArticle(article, TopN))
    => /\ pc = "return"
       /\ via = 1
       /\ returned = [r \in 1..TopN |-> LinkedTeam(article, r)]

(***************************************************************************)
(* A target without a record in the window (src/main9.py)                  *)
(***************************************************************************)
\* opponents.get(team, [])
OpponentsGet(opponents, team) ==
  IF team \in DOMAIN opponents THEN opponents[team] ELSE <<>>

\* batch holds a record of the window [today, today + days - 1] one of whose
\* sides is the target, by normalized name
HasMatchingRecord(batch, target) ==
  \E i \in 1..Len(batch) :
    /\ today <= batch[i].date
    /\ batch[i].date <= today + days - 1
    /\ _clean(target) \in {_clean(batch[i].home), _clean(batch[i].away)}

\* C21: a target with no matching record inside the window in either batch
\* of main9's merge has an empty opponent list: the merge returns and the
\* lookup of the target's name in its result gives the empty list.
C21_AbsentTargetHasNoOpponents ==
  (pc = "merged" /\ version = "main9") =>
    \A i \in 1..Len(teams) :
      (~HasMatchingRecord(todays_games, teams[i]) /\ ~HasMatchingRecord(future_games, teams[i]))
        => OpponentsGet(by_team, teams[i]) = <<>>

\* the second target is on no feed while the first has a game in the window
C21_Witness ==
  /\ pc = "merged"
  /\ version = "main9"
  /\ days = DAYS
  /\ teams = <<Clippers, Celtics>>
  /\ future_games = <<Game(today + 1, Nuggets, Clippers)>>
  /\ DOMAIN by_team = {Clippers}
  /\ OpponentsGet(by_team, Celtics) = <<>>

(***************************************************************************)
(* The index pages of get_latest_power_rankings_article                    *)
(***************************************************************************)
SelectReturnedOrRaised == pc \in {"selected", "select_failed"}

\* C22: get_latest_power_rankings_article raises the discovery error exactly
\* when the index pages together yield no valid candidate link; an index page
\* whose fetch fails or is not 2xx counts as one without links, and the index
\* pages after it are still fetched.
C22_DiscoveryFatalIffNoCandidate ==
  SelectReturnedOrRaised =>
    /\ Len(listings) = Len(INDEX_CANDIDATES)
    /\ (raised = NoLinksError) <=> (candidates = <<>>)
    /\ \A i \in 1..Len(listings) :
         listings[i].kind # "page" => raised \in {NoException, NoLinksError}

(***************************************************************************)
(* What main prints (src/main8.py, src/main9.py)                           *)
(***************************************************************************)
ErrorLines == {i \in 1..Len(printed) : printed[i].kind = "ERROR"}

MergedFromLoaded ==
  by_team = IF version = "main9"
            THEN upcoming_opponents_next_week(todays_games, future_games, returned, DAYS)
            ELSE upcoming_opponents_next_week8(todays_games, league_schedule, returned, DAYS)

\* C23: a run that meets a fatal error prints the one failure message and
\* nothing else; the article URL, the team names and the opponent lines are
\* printed only after the selection, the extraction, the loading and the merge
\* have all completed without an exception.
C23_NoPartialOutput ==
  /\ pc \notin {"failed", "done"} => printed = <<>>
  /\ pc = "failed" => raised # NoException /\ printed = <<Line("ERROR", raised)>>
  /\ pc = "done" =>
       /\ ErrorLines = {}
       /\ raised = NoException
       /\ url \in ARTICLE_URLS
       /\ Len(returned) = TopN
       /\ teams = returned
       /\ MergedFromLoaded
       /\ printed[1] = Line("article", url)

\* the article was selected and fetched, all three strategies ran, and the
\* extraction error is the only line printed
C23_Witness ==
  /\ pc = "failed"
  /\ url \in ARTICLE_URLS
  /\ ran = <<1, 2, 3>>
  /\ IsExtractionError(raised)
  /\ printed = <<Line("ERROR", raised)>>

(***************************************************************************)
(* The loaders: load_todays_games, load_future_games_from_espn with        *)
(* fetch_espn_games_for_date (src/main9.py), and main8's                   *)
(* discover_league_schedule, one fetch at a time.                          *)
(***************************************************************************)
Competitor(side, name) == [homeAway |-> side, displayName |-> name]

\* the loop `for t in teams` of fetch_espn_games_for_date: (home_name, away_name)
RECURSIVE CompetitorNames(_, _, _)
CompetitorNames(competitors, home_name, away_name) ==
  IF competitors = <<>> THEN <<home_name, away_name>>
  ELSE LET nm == canonicalize(Head(competitors).displayName)
       IN  IF Head(competitors).homeAway = "home"
           THEN CompetitorNames(Tail(competitors), nm, away_name)
           ELSE CompetitorNames(Tail(competitors), home_name, nm)

\* the loop `for ev in events`: an event without both names is left out
RECURSIVE EventGames(_, _)
EventGames(d, events) ==
  IF events = <<>> THEN <<>>
  ELSE LET names == CompetitorNames(Head(events), None, None)
       IN  (IF names[1] # None /\ names[2] # None THEN <<Game(d, names[1], names[2])>> ELSE <<>>)
           \o EventGames(d, Tail(events))

Answer(fn, key, kind, payload) == [fn |-> fn, key |-> key, kind |-> kind, payload |-> payload]

\* what the live scoreboard answers: the request raises, a status other than
\* 200, a body r.json() rejects, or its games
LiveResponses ==
  {[kind |-> k, payload |-> <<>>] : k \in {"raises", "not200", "badjson"}}
    \cup {[kind |-> "json", payload |-> <<[homeTeam |-> RawClippers, awayTeam |-> RawNuggets]>>]}

\* what the per-day scoreboard answers for one date
DayResponses ==
  {[kind |-> k, payload |-> <<>>] : k \in {"raises", "not200"}}
    \cup {[kind |-> "json",
           payload |-> <<<<Competitor("home", Nuggets), Competitor("away", LAClippers)>>>>],
          [kind |-> "json", payload |-> <<<<Competitor("home", Nuggets)>>>>]}

InitLoad ==
  /\ pc = "load_live"
  /\ version \in {"main8", "main9"}
  /\ discover_vars_init
  /\ loads = <<>>
  /\ select_vars_init
  /\ calls = <<>>
  /\ league_schedule = <<>>
  /\ todays_games = <<>>
  /\ future_games = <<>>
  /\ teams = <<>>
  /\ days = DAYS
  /\ by_team = <<>>
  /\ url = ""
  /\ article = <<>>
  /\ results = <<>>
  /\ by_rank = <<>>
  /\ returned = <<>>
  /\ via = 0
  /\ raised = NoException
  /\ ran = <<>>
  /\ fetches = <<>>
  /\ printed = <<>>

\* todays = load_todays_games(session): the games, or [] from the status test
\* or from the except clause
LoadLive ==
  /\ pc = "load_live"
  /\ \E r \in LiveResponses :
       /\ loads' = Append(loads, Answer("load_todays_games", today, r.kind, r.payload))
       /\ todays_games' = IF r.kind = "json" THEN GamesOf(today, r.payload) ELSE <<>>
  /\ fetches' = Append(fetches, <<"load_todays_games", "todaysScoreboard_00.json">>)
  /\ pc' = IF version = "main9" THEN "load_future" ELSE "discover"
  /\ UNCHANGED <<select_vars, calls, discover_vars, url, extract_vars, raised, printed, version,
                 league_schedule, future_games, teams, days, by_team>>

\* one pass of `for i in range(1, days_ahead + 1)` whose
\* fetch_espn_games_for_date returns: [] for a status other than 200
FetchDay ==
  /\ pc = "load_future"
  /\ Len(loads) <= DAYS_AHEAD
  /\ \E r \in DayResponses :
       /\ r.kind \in {"not200", "json"}
       /\ loads' = Append(loads, Answer("fetch_espn_games_for_date", today + Len(loads),
                                        r.kind, r.payload))
       /\ future_games' = future_games \o (IF r.kind = "json"
                                           THEN EventGames(today + Len(loads), r.payload)
                                           ELSE <<>>)
  /\ fetches' = Append(fetches, <<"fetch_espn_games_for_date", today + Len(loads)>>)
  /\ UNCHANGED <<pc, select_vars, calls, discover_vars, url, extract_vars, raised, printed,
                 version, todays_games, league_schedule, teams, days, by_team>>

\* a failed date that ends the loop (`break` for `continue`)
FetchDayFails_EndsLoop ==
  /\ pc = "load_future"
  /\ Len(loads) <= DAYS_AHEAD
  /\ \E r \in DayResponses :
       /\ r.kind = "raises"
       /\ loads' = Append(loads, Answer("fetch_espn_games_for_date", today + Len(loads),
                                        r.kind, r.payload))
  /\ fetches' = Append(fetches, <<"fetch_espn_games_for_date", today + Len(loads)>>)
  /\ pc' = "loaded"
  /\ UNCHANGED <<select_vars, calls, discover_vars, url, extract_vars, raised, printed,
                 version, merge_vars>>

\* one pass whose fetch_espn_games_for_date raises: `except Exception: continue`
FetchDayFails ==
  /\ pc = "load_future"
  /\ Len(loads) <= DAYS_AHEAD
  /\ \E r \in DayResponses :
       /\ r.kind = "raises"
       /\ loads' = Append(loads, Answer("fetch_espn_games_for_date", today + Len(loads),
                                        r.kind, r.payload))
  /\ fetches' = Append(fetches, <<"fetch_espn_games_for_date", today + Len(loads)>>)
  /\ UNCHANGED <<pc, select_vars, calls, discover_vars, url, extract_vars, raised, printed,
                 version, merge_vars>>

\* return games
LoadFutureReturn ==
  /\ pc = "load_future"
  /\ Len(loads) = DAYS_AHEAD + 1
  /\ pc' = "loaded"
  /\ UNCHANGED <<select_vars, calls, discover_vars, loads, url, extract_vars, raised, fetches,
                 printed, version, merge_vars>>

NextLoad ==
  \/ LoadLive
  \/ FetchDay
  \/ FetchDayFails
  \/ LoadFutureReturn
  \/ ProbeSkipped
  \/ ProbeScored
  \/ DiscoverReturn

SpecLoad == InitLoad /\ [][NextLoad]_vars

\* the records of the dates from i on that answered
RECURSIVE KeptFrom(_)
KeptFrom(i) ==
  IF i > DAYS_AHEAD THEN <<>>
  ELSE (IF loads[i + 1].kind = "json" THEN EventGames(today + i, loads[i + 1].payload) ELSE <<>>)
       \o KeptFrom(i + 1)

\* C24: no failed fetch of a loader aborts the run or is repeated.  A failed
\* live scoreboard gives an empty live batch; a failed schedule candidate is
\* skipped and every later candidate is still probed; a failed date of the
\* per-day scoreboard drops that date only, every date of 1..days_ahead being
\* fetched once and the records of the dates that answered being kept.
C24_FailedFetchesRecoveredLocally ==
  /\ raised = NoException
  /\ \A i, j \in 1..Len(fetches) : i # j => fetches[i] # fetches[j]
  /\ pc # "load_live" =>
       (loads[1].kind # "json" => todays_games = <<>>) /\ (loads[1].kind = "json" => todays_games # <<>>)
  /\ pc = "loaded" =>
       /\ Len(loads) = DAYS_AHEAD + 1
       /\ \A i \in 1..DAYS_AHEAD : loads[i + 1].key = today + i
       /\ future_games = KeptFrom(1)
  /\ pc = "discovered" =>
       /\ Len(probed) = MaxCandidates
       /\ league_schedule = best_games
       /\ (\E i \in 1..Len(probed) : Usable(i)) => league_schedule # <<>>

\* the live scoreboard and the second and fourth date failed, the other dates
\* answered and their records are the batch
C24_Witness ==
  /\ pc = "loaded"
  /\ loads[1].kind = "raises"
  /\ todays_games = <<>>
  /\ \A i \in 1..DAYS_AHEAD :
       loads[i + 1] = IF i \in {2, 4}
                      THEN Answer("fetch_espn_games_for_date", today + i, "raises", <<>>)
                      ELSE Answer("fetch_espn_games_for_date", today + i, "json",
                                  <<<<Competitor("home", Nuggets), Competitor("away", LAClippers)>>>>)
  /\ future_games = [n \in 1..4 |-> Game(today + <<1, 3, 5, 6>>[n], Nuggets, Clippers)]

(***************************************************************************)
(* Strategy 1's window (parse_top_teams_from_article, src/main9.py)        *)
(***************************************************************************)
MarkerScanRan == ran # <<>> /\ article # <<>>

\* C25: when the window of rank r, which opens after the first "#r" marker,
\* holds a link to a team page whose text is a known team, rank r is given
\* that link's team, even when a node before the link has text that contains
\* a known team name.
C25_LinkPreferredInWindow ==
  MarkerScanRan =>
    LET nodes == descendants(article)
    IN  \A r \in 1..TopN :
          (MarkersOf(nodes, r) # {} /\ LinksAfter(nodes, Least(MarkersOf(nodes, r)), r) # {})
            => r \in DOMAIN results /\ results[r] = LinkedTeam(article, r)

\* the last position of the document order that lies inside nodes[j]
EndOf(nodes, j) == j + Len(descendants(nodes[j].kids))

\* nodes[j] names the team: as a known team link, or by containing the name
Names(node, team) ==
  \/ IsKnownTeamLink(node) /\ canonicalize(NodeText(node, <<" ">>, TRUE)) = team
  \/ IsTag(node) /\ Contains(team, NodeText(node, <<" ">>, TRUE))

\* C26: the team of rank r is named by a node that comes after a "#r" marker,
\* fewer than 600 nodes ahead of it, and that ends before the first "#r+1"
\* marker after the "#r" marker: text that follows the "#r+1" marker never
\* decides rank r.
C26_RankTakenBeforeNextMarker ==
  MarkerScanRan =>
    LET nodes == descendants(article)
    IN  \A r \in DOMAIN results :
          \E i \in MarkersOf(nodes, r) : \E j \in (i + 1)..Len(nodes) :
            /\ j - i <= LOOKAHEAD
            /\ Names(nodes[j], results[r])
            /\ \A k \in (i + 1)..EndOf(nodes, j) : ~is_rank_marker(nodes[k], r + 1)

(***************************************************************************)
(* Deduplication and the validation limit                                  *)
(* (get_latest_power_rankings_article, src/main9.py)                       *)
(***************************************************************************)
FirstSeen(u) == Least({i \in 1..Len(candidates) : candidates[i] = u})

\* the candidate URLs fetched for validation so far, in order
ValidationFetches ==
  SelectSeq(fetches, LAMBDA f : \A i \in 1..Len(INDEX_CANDIDATES) : f[2] # INDEX_CANDIDATES[i])

FirstKOf(list) == {list[i] : i \in 1..Len(list) \cap 1..VALIDATE_LIMIT}

\* C27: the deduplicated list holds every candidate once, in first-seen
\* order; every URL fetched for validation and the URL returned are among the
\* first K = 12 entries of it; at most K validation fetches are made and none
\* is made twice.
C27_ValidatesFirstKOnce ==
  pc \in {"validate", "selected"} =>
    /\ {ordered[i] : i \in 1..Len(ordered)} = {candidates[i] : i \in 1..Len(candidates)}
    /\ \A i, j \in 1..Len(ordered) : i < j => FirstSeen(ordered[i]) < FirstSeen(ordered[j])
    /\ Len(ValidationFetches) <= VALIDATE_LIMIT
    /\ \A i \in 1..Len(ValidationFetches) : ValidationFetches[i][2] \in FirstKOf(ordered)
    /\ \A i, j \in 1..Len(ValidationFetches) :
         i # j => ValidationFetches[i][2] # ValidationFetches[j][2]
    /\ pc = "selected" => url \in FirstKOf(ordered)

\* fourteen candidates, twelve of them validated, none plausible
C27_Witness ==
  /\ pc = "selected"
  /\ candidates = SeasonListing
  /\ Len(ordered) = 14
  /\ Len(ValidationFetches) = VALIDATE_LIMIT
  /\ scored = <<>>
  /\ url = ordered[1]

(***************************************************************************)
(* The keys of the merge's result                                          *)
(***************************************************************************)
CanonicalNames == {CANON_TEAMS[i] : i \in 1..Len(CANON_TEAMS)}

Targets == {teams[i] : i \in 1..Len(teams)}

\* C28: every key of the result of upcoming_opponents_next_week is the
\* canonical display name of a target, whatever the spelling of the names in
\* the batches: what is filed under any spelling of a target is found under
\* the target's canonical name.
C28_KeysAreCanonicalTargets ==
  pc = "merged" =>
    /\ DOMAIN by_team \subseteq CanonicalNames \cap Targets
    /\ \A k \in DOMAIN by_team : \A t \in Targets :
         _clean(k) = _clean(t) =>
           \A i \in 1..Len(by_team[k]) :
             \E j \in 1..Len(OpponentsGet(by_team, t)) : by_team[t][j] = by_team[k][i]

(***************************************************************************)
(* The names parse_top_teams_from_article returns                          *)
(***************************************************************************)
\* C29: every name parse_top_teams_from_article returns, whichever strategy
\* returns it, is an entry of CANON_TEAMS, and so is every target name handed
\* to the merge.
C29_ReturnsRosterNames ==
  /\ \A i \in 1..Len(returned) : returned[i] \in CanonicalNames
  /\ \A i \in 1..Len(teams) : teams[i] \in CanonicalNames

\* the marker scan returned the roster name of a team the article links as
\* "LA Clippers"
C29_Witness ==
  /\ pc = "return"
  /\ via = 1
  /\ article = <<Marker(1), TeamLink(LAClippers), Marker(2), TeamLink(LAClippers)>>
  /\ returned = <<Clippers, Clippers>>

(***************************************************************************)
(* The outcome of get_latest_power_rankings_article                        *)
(***************************************************************************)
\* C30: once the deduplicated candidate list is not empty,
\* get_latest_power_rankings_article raises nothing and, when it ends, has
\* returned a URL of that list, whatever the candidates answer and whatever
\* publish times their pages carry.
C30_NonEmptyListReturnsUrl ==
  ordered # <<>> =>
    /\ raised = NoException
    /\ pc \in {"validate", "selected"}
    /\ pc = "selected" => \E i \in 1..Len(ordered) : url = ordered[i]

====
